---- MODULE Spec2Model ----
(***************************************************************************)
(* MiniMCP: the message-processing core (MiniMCP.handle, Limiter,         *)
(* ContextManager, Responder, ServerCore.call_tool) and the HTTP           *)
(* transports built on it.  Each task runs one handle() call; tasks        *)
(* interleave only at the awaits of the code (cooperative scheduling).     *)
(***************************************************************************)
EXTENDS Integers, Sequences, FiniteSets, TLC

(* ------------------------------ bounds -------------------------------- *)
NumTasks == 3
MaxConcurrency == 2
IdleTimeout == 1
MaxTime == 1
MaxSends == 1
MaxStreamSends == 2
MaxId == 2
\* stdio transport: lines read from stdin, calls of write_msg, and the
\* length of a message text.
NumLines == 2
MaxWrites == 3
MaxTextLen == 2
\* Starts and closes of a StreamableHTTPTransport, and POSTs it turns away.
MaxCycles == 2
MaxRejected == 2
\* tools/list and tools/call messages dispatched to the core.
MaxDispatched == 3
\* Tasks of one handler that call send concurrently, and the calls they make.
NumSenders == 3
MaxLatchSends == 3
\* The calls of report_progress one handler makes.
MaxReports == 2

Tasks == 1..NumTasks

(* ------------------------- JSON-RPC messages -------------------------- *)
\* A message id: <<"id", n>> for the JSON value n, AbsentId when the object
\* has no "id" member, NO_ID for the sentinel string "no-id".
AbsentId == <<"absent", 0>>
NO_ID == <<"no-id", 0>>
Ids == {<<"id", n>> : n \in 1..MaxId}

\* Methods of mcp.types.ClientRequest that MiniMCP registers a handler for,
\* methods of ClientRequest it registers none for, and a method outside it.
InternalMethods == {"initialize"}
UserMethods == {"tools/call", "prompts/get"}
UnhandledMethods == {"logging/setLevel"}
UnknownRequestMethods == {"unknown_method"}
ResourceMethods == {"resources/read"}
RequestMethods == InternalMethods \cup UserMethods \cup UnhandledMethods
                    \cup UnknownRequestMethods

\* Notifications of mcp.types.ClientNotification, and one outside it.
NotificationMethods == {"notifications/initialized", "notifications/progress"}
UnknownNotificationMethods == {"notifications/unknown"}

\* The raw text of a message, described by what a JSON parser sees in it.
\*   text    : "invalid" (not JSON), "array" (JSON, not an object), "object"
\*   jsonrpc : the "jsonrpc" member: "2.0", "1.0" or "absent"
\*   id      : the "id" member
\*   method  : the "method" member or "absent"
\*   part    : "params", "params+progressToken" (params whose _meta carries a
\*             progressToken), "result" (a response) or "none"
RawMessage(text, jsonrpc, id, method, part) ==
    [text |-> text, jsonrpc |-> jsonrpc, id |-> id, method |-> method, part |-> part]

InvalidJSONMessages == {RawMessage("invalid", "absent", AbsentId, "absent", "none")}
NonObjectMessages == {RawMessage("array", "absent", AbsentId, "absent", "none")}
BadVersionMessages ==
    {RawMessage("object", v, i, "initialize", "params") :
        v \in {"1.0", "absent"}, i \in {<<"id", 1>>, AbsentId}}
BadShapeMessages ==
    {RawMessage("object", "2.0", i, "absent", "none") : i \in {<<"id", 1>>, AbsentId}}
RequestMessages ==
    {RawMessage("object", "2.0", i, m, "params") : i \in Ids, m \in RequestMethods}
NotificationMessages ==
    {RawMessage("object", "2.0", AbsentId, m, "params") :
        m \in NotificationMethods \cup UnknownNotificationMethods}
ResponseMessages ==
    {RawMessage("object", "2.0", i, "absent", "result") : i \in Ids}
\* Requests to user handlers whose params._meta carries a progressToken.
ProgressRequestMessages ==
    {RawMessage("object", "2.0", <<"id", 1>>, m, "params+progressToken") :
        m \in UserMethods}

Messages == InvalidJSONMessages \cup NonObjectMessages \cup BadVersionMessages
              \cup BadShapeMessages \cup RequestMessages
              \cup NotificationMessages \cup ResponseMessages
              \cup ProgressRequestMessages

NullMessage == RawMessage("invalid", "absent", AbsentId, "absent", "null")

(* ------------------------------ frames -------------------------------- *)
\* A JSON-RPC frame produced by the server.  type is "result" or "error";
\* code is the error code of an error frame; isError/content are the
\* CallToolResult of a tools/call result ("n/a" and <<>> otherwise).
Frame(type, id, code, isError, content) ==
    [type |-> type, id |-> id, code |-> code, isError |-> isError, content |-> content]
NullFrame == Frame("null", AbsentId, "none", "n/a", <<>>)


\* A response built without the id of the request it answers.
build_response_message_without_id(message_id, response) ==
    Frame("result", NO_ID, "none", response.isError, response.content)

\* json_rpc.build_response_message: the response echoes message_id.
build_response_message(message_id, response) ==
    Frame("result", message_id, "none", response.isError, response.content)

\* The id an error frame is given for a request message: the message's own
\* id when the text is a JSON object with an id.
get_request_id(message) ==
    IF message.text = "object" /\ message.id # AbsentId THEN message.id ELSE AbsentId

\* json_rpc.build_error_message: "no-id" when no id is known.
build_error_message(error_code, message_id) ==
    Frame("error", IF message_id = AbsentId THEN NO_ID ELSE message_id,
          error_code, "n/a", <<>>)

(* --------------------------- parsing (codec) -------------------------- *)
\* json_rpc.check_jsonrpc_version: the text is an object whose "jsonrpc"
\* member is the literal "2.0".
check_jsonrpc_version(message) ==
    message.text = "object" /\ message.jsonrpc = "2.0"

\* The member of the JSONRPCMessage union an object validates as.
RootKind(message) ==
    IF message.method # "absent" /\ message.id # AbsentId THEN "request"
    ELSE IF message.method # "absent" THEN "notification"
    ELSE IF message.part = "result" /\ message.id # AbsentId THEN "response"
    ELSE "invalid"

ParseResult(ok, err, kind) == [ok |-> ok, err |-> err, kind |-> kind]

\* MiniMCP._parse_message: JSONRPCMessage.model_validate_json and the
\* classification of its validation errors.
parse_message(message) ==
    IF message.text = "invalid"
        THEN ParseResult(FALSE, "InvalidJSONError", "invalid")
    ELSE IF message.text # "object"
        THEN ParseResult(FALSE, "InvalidJSONRPCMessageError", "invalid")
    ELSE IF ~check_jsonrpc_version(message)
        THEN ParseResult(FALSE, "InvalidJSONRPCMessageError", "invalid")
    ELSE IF RootKind(message) = "invalid"
        THEN ParseResult(FALSE, "InvalidMCPMessageError", "invalid")
    ELSE ParseResult(TRUE, "none", RootKind(message))

\* types.ClientRequest.model_validate / types.ClientNotification.model_validate:
\* the typed view accepts only the methods of the MCP vocabulary.
ClientRequest_validates(message) ==
    message.method \in InternalMethods \cup UserMethods \cup UnhandledMethods
                          \cup ResourceMethods
ClientNotification_validates(message) ==
    message.method \in NotificationMethods

\* ServerCore.request_handlers after MiniMCP.__init__ (initialize, and the
\* handlers the tool and prompt managers hook), and notification_handlers
\* with a progress handler registered.
request_handlers == InternalMethods \cup UserMethods \cup ResourceMethods
notification_handlers == {"notifications/progress"}

(* -------------------------- handle() outcomes ------------------------- *)
\* What a handle() call has produced: still "pending", a returned "frame",
\* the returned sentinel NoMessage.NOTIFICATION ("nomessage"), a return
\* without a value ("none"), or a "raised" exception exc (an
\* InvalidMessageError carries its pre-built frame).
Outcome(kind, exc, frame) == [kind |-> kind, exc |-> exc, frame |-> frame]
Pending == Outcome("pending", "none", NullFrame)
ReturnedFrame(f) == Outcome("frame", "none", f)
ReturnedNoMessage == Outcome("nomessage", "none", NullFrame)
ReturnedNone == Outcome("none", "none", NullFrame)
Raised(exc, f) == Outcome("raised", exc, f)

\* MiniMCP._process_error: the error frame for the request message.
process_error(message, error_code) ==
    build_error_message(error_code, get_request_id(message))


\* A catch-all that also catches cancellation (`except BaseException`).
IsException_or_cancelled(exc) == TRUE

\* Cancellation is a BaseException: `except Exception` does not match it.
IsException(exc) == exc \notin {"Cancelled", "CancelledByDeadline"}

\* A handle() that returns the error frame of every exception.
handle_except_returns_frames(exc, message) ==
    ReturnedFrame(process_error(message, IF exc = "InvalidJSONError" THEN "PARSE_ERROR"
                                         ELSE "INTERNAL_ERROR"))

\* The except clauses of MiniMCP.handle, in their order.
handle_except(exc, message) ==
    IF exc = "InvalidJSONError"
        THEN Raised("InvalidMessageError", process_error(message, "PARSE_ERROR"))
    ELSE IF exc = "InvalidJSONRPCMessageError"
        THEN Raised("InvalidMessageError", process_error(message, "INVALID_REQUEST"))
    ELSE IF exc = "UnsupportedMessageTypeError"
        THEN ReturnedFrame(process_error(message, "INVALID_REQUEST"))
    ELSE IF exc \in {"InvalidMCPMessageError", "InvalidArgumentsError", "PrimitiveError",
                     "ToolInvalidArgumentsError", "ToolPrimitiveError"}
        THEN ReturnedFrame(process_error(message, "INVALID_PARAMS"))
    ELSE IF exc = "RequestHandlerNotFoundError"
        THEN ReturnedFrame(process_error(message, "METHOD_NOT_FOUND"))
    ELSE IF exc = "ResourceNotFoundError"
        THEN ReturnedFrame(process_error(message, "RESOURCE_NOT_FOUND"))
    ELSE IF exc \in {"MCPRuntimeError", "ContextError", "TimeoutError", "ToolMCPRuntimeError"}
        THEN ReturnedFrame(process_error(message, "INTERNAL_ERROR"))
    ELSE IF exc = "InternalMCPError"
        THEN ReturnedFrame(process_error(message, "INTERNAL_ERROR"))
    ELSE IF IsException(exc)
        THEN ReturnedFrame(process_error(message, "INTERNAL_ERROR"))
    ELSE Raised(exc, NullFrame)

(* ------------------------ handlers and results ------------------------ *)
\* A server result: the CallToolResult fields of a tools/call result,
\* "n/a" and <<>> for every other result.
ServerResult(isError, content) == [isError |-> isError, content |-> content]
PlainResult == ServerResult("n/a", <<>>)

\* Exceptions a user handler raises: its class and str(E).
HandlerError(class, text) == [class |-> class, text |-> text]
HandlerErrors == {HandlerError("ZeroDivisionError", "divide by zero"),
                  HandlerError("ContextError", "Scope is not available in current context")}
NoError == HandlerError("none", "")

\* ServerCore._make_error_result.
make_error_result(error_message) == ServerResult("true", <<error_message>>)

\* What the body of `async with self._limiter()` ends with: a returned
\* outcome, or an exception that leaves it.
BodyReturn(o) == [kind |-> "return", out |-> o, exc |-> "none"]
BodyRaise(exc) == [kind |-> "raise", out |-> Pending, exc |-> exc]
BodyAwait == [kind |-> "await", out |-> Pending, exc |-> "none"]
BodyFault(exc) == [kind |-> "fault", out |-> Pending, exc |-> exc]


\* A call_tool handler without its `except Exception`: the exception of the
\* tool function propagates.
call_tool_handler_propagates(returned, e) ==
    IF returned THEN BodyReturn(ServerResult("false", <<"ok">>))
    ELSE BodyRaise(e.class)

\* ServerCore.call_tool.handler: the tool's content on return; an exception
\* of the tool is caught and becomes an isError result carrying str(e).
call_tool_handler(returned, e) ==
    IF returned THEN BodyReturn(ServerResult("false", <<"ok">>))
    ELSE BodyReturn(make_error_result(e.text))

\* The structured values a tool function may give, and the output schemas:
\* a schema is the set of the values jsonschema.validate accepts under it.
StructuredValues == {"{result: 8}", "{result: 'x'}", "{}"}
OutputSchemas == SUBSET StructuredValues
jsonschema_validate(instance, schema) == instance \in schema

\* The Tool definition _get_cached_tool_definition gives (None when the tool
\* is not listed): outputSchema is None or a schema.
ToolDef(listed, hasSchema, schema) ==
    [listed |-> listed, hasSchema |-> hasSchema, outputSchema |-> schema]
ToolDefs ==
    {ToolDef(FALSE, FALSE, {}), ToolDef(TRUE, FALSE, {})}
        \cup {ToolDef(TRUE, TRUE, sch) : sch \in OutputSchemas}

\* What `await func(tool_name, arguments)` gives: a pair of content and
\* structured content (which may be None), a dict, an iterable of content
\* blocks, a value of another type, or an exception.
ToolResults(kind, structured) == [kind |-> kind, structured |-> structured]
AllToolResults ==
    {ToolResults("tuple", sv) : sv \in StructuredValues \cup {"None"}}
        \cup {ToolResults("dict", sv) : sv \in StructuredValues}
        \cup {ToolResults(k, "None") : k \in {"iterable", "other", "raise"}}

\* CallToolResult: isError and structuredContent.
CallToolResult(isError, structured) == [isError |-> isError, structuredContent |-> structured]

\* A handler that returns the tool's output without validating it.
call_tool_output_unvalidated(tool, results) ==
    IF results.kind = "raise" THEN CallToolResult(TRUE, "None")
    ELSE IF results.kind = "other" THEN CallToolResult(TRUE, "None")
    ELSE CallToolResult(FALSE, results.structured)

\* ServerCore.call_tool.handler (validate_input=False) once the tool function
\* is over: output normalisation, output validation, result.
call_tool_output(tool, results) ==
    IF results.kind = "raise" THEN CallToolResult(TRUE, "None")
    ELSE IF results.kind = "other" THEN CallToolResult(TRUE, "None")
    ELSE IF tool.listed /\ tool.hasSchema /\ results.structured = "None"
        THEN CallToolResult(TRUE, "None")
    ELSE IF tool.listed /\ tool.hasSchema
            /\ ~jsonschema_validate(results.structured, tool.outputSchema)
        THEN CallToolResult(TRUE, "None")
    ELSE CallToolResult(FALSE, results.structured)

\* PromptManager.get: an exception of the prompt handler is re-raised as
\* MCPRuntimeError.
get_prompt_handler(returned, e) ==
    IF returned THEN BodyReturn(PlainResult) ELSE BodyRaise("MCPRuntimeError")

\* ResourceManager._read_resource: an exception of the resource function is
\* re-raised as ValueError.
read_resource_handler(returned, e) ==
    IF returned THEN BodyReturn(PlainResult) ELSE BodyRaise("ValueError")

\* The registered request handler for the method, once the user function
\* has returned or raised e.
request_handler_result(method, returned, e) ==
    IF method = "tools/call" THEN call_tool_handler(returned, e)
    ELSE IF method = "resources/read" THEN read_resource_handler(returned, e)
    ELSE get_prompt_handler(returned, e)

\* MiniMCP._handle_client_notification: the handler's exceptions are
\* logged and swallowed; the result is always NoMessage.NOTIFICATION.
handle_client_notification_result(returned, e) == BodyReturn(ReturnedNoMessage)

\* MiniMCP._handle_rpc_msg once the user handler has finished.
handle_rpc_msg_finish(message, returned, e) ==
    IF RootKind(message) = "request"
        THEN LET r == request_handler_result(message.method, returned, e) IN
             IF r.kind = "return"
                 THEN BodyReturn(ReturnedFrame(build_response_message(message.id, r.out)))
                 ELSE r
        ELSE handle_client_notification_result(returned, e)


\* A dispatch that looks the handler up by method without validating the
\* typed view first.
handle_rpc_msg_start_unvalidated(message, matched) ==
    IF RootKind(message) = "request" THEN
        IF message.method \notin request_handlers
            THEN BodyRaise("RequestHandlerNotFoundError")
        ELSE IF message.method \in InternalMethods
            THEN BodyReturn(ReturnedFrame(build_response_message(message.id, PlainResult)))
        ELSE BodyAwait
    ELSE IF RootKind(message) = "notification" THEN
        IF message.method \notin notification_handlers
            THEN BodyReturn(ReturnedNoMessage)
        ELSE BodyAwait
    ELSE BodyRaise("UnsupportedMessageTypeError")

\* ResourceManager.read up to the call of the resource function: a URI for
\* which _find_matching_details finds nothing raises ValueError.
read_resource_start(matched) == IF matched THEN BodyAwait ELSE BodyRaise("ValueError")

\* MiniMCP._handle_rpc_msg up to the first await of a user handler:
\* validation of the typed view, handler lookup, and the handlers that
\* complete without suspending (initialize, a resources/read of a URI that
\* matches nothing: matched tells whether the registry matches the URI).
handle_rpc_msg_start(message, matched) ==
    IF RootKind(message) = "request" THEN
        IF ~ClientRequest_validates(message) THEN BodyRaise("ValidationError")
        ELSE IF message.method \notin request_handlers
            THEN BodyRaise("RequestHandlerNotFoundError")
        ELSE IF message.method \in InternalMethods
            THEN BodyReturn(ReturnedFrame(build_response_message(message.id, PlainResult)))
        ELSE IF message.method \in ResourceMethods
            THEN read_resource_start(matched)
        ELSE BodyAwait
    ELSE IF RootKind(message) = "notification" THEN
        IF ~ClientNotification_validates(message) THEN BodyRaise("ValidationError")
        ELSE IF message.method \notin notification_handlers
            THEN BodyReturn(ReturnedNoMessage)
        ELSE BodyAwait
    ELSE BodyRaise("UnsupportedMessageTypeError")

\* TimeLimiter.__exit__ returns CancelScope.__exit__: the scope swallows the
\* cancellation its own deadline caused and passes every other exception.
TimeLimiter_exit_swallows(exc) == exc = "CancelledByDeadline"

\* How handle() ends once the body of `async with self._limiter()` is left:
\* a swallowed exception leaves the with block without a return value.
handle_finish(body, message) ==
    IF body.kind = "return" THEN body.out
    ELSE IF TimeLimiter_exit_swallows(body.exc) THEN ReturnedNone
    ELSE handle_except(body.exc, message)

(* ------------------------------- state -------------------------------- *)
VARIABLES
    pc,         \* pc[t]: "idle", "acquiring" (blocked on the capacity limiter),
                \*        "running" (user handler suspended at an await), "done"
    msg,        \* msg[t]: the message passed to handle()
    scope,      \* scope[t]: the scope passed to handle(), "None" when absent
    hasSend,    \* hasSend[t]: a send callback was passed to handle()
    borrowers,  \* CapacityLimiter: the tasks holding a token
    ctxvar,     \* ContextManager._ctx: the value of the context variable per task
    token,      \* token[t]: the value ContextVar.set replaced, restored by reset
    deadline,   \* TimeLimiter._scope.deadline of the call of task t
    now,        \* anyio.current_time()
    seen,       \* seen[t]: what context.get() returned inside the handler of t
    sent,       \* sent[t]: the messages the handler of t passed to send, in order
    out,        \* out[t]: the outcome of handle()
    hist,       \* hist[t]: how the user handler of t ended
    sending,    \* the item a blocked send_stream.send offers, NoItem when none
    tools,      \* ToolManager._tools: the registered tools in insertion order
    prompts,    \* PromptManager._prompts: the registered prompts in insertion order
    resources,  \* ResourceManager._resources: the registered entries in order
    regop,      \* the last call made on a registry, and how it ended
    toolcall,   \* the last call of the core's tools/call handler: the tool
                \*   definition it found, what the tool function gave, its result
    actstack,   \* actstack[t]: the tokens of the active() blocks the handler of
                \*   t has entered itself and not left, innermost last
    progressAt, \* progressAt[t]: when the call of t entered its TimeLimiter or
                \*   last called send_notification, 0 outside the limiter
    calledAt,   \* calledAt[t]: when handle() was called in task t, 0 when no
                \*   call of t is in flight
    reported,   \* reported[t]: the calls of report_progress the handler of t
                \*   made, and what the last of them returned
    asked,      \* asked[t]: the server whose context.get() the handler of t
                \*   called last (seen[t] is what it got), "none" before
    headers,    \* the headers of the request the transport handles
    httpreq,    \* its HTTP method and body
    tpc,        \* _handle_request: "idle", "handling" (awaiting handle();
                \*   "awaiting handler" in the older HTTPTransport),
                \*   "final" (blocked sending the result on the stream), "closed",
                \*   "cancelled" (cancelled while blocked in "final")
    started_with_stream,  \* _handle_request.started_with_stream
    response,   \* the MCPHTTPResponse passed to task_status.started
    received,   \* the items the consumer of recv_stream has received, in order
    recvOpen,   \* the consumer of recv_stream has not gone away
    stdout,     \* stdio transport: the writes made to _stdout, in order
    stdio,      \* stdio transport: its state, its _handle_message tasks and
                \*   the last call of write_msg
    lifecycle,  \* StreamableHTTPTransport: _tg is set, and the history of its
                \*   starts, closes and POSTs turned away
    core,       \* ServerCore._tool_cache, and the tools/list and tools/call
                \*   messages dispatched so far
    latch       \* one _handle_request seen at the steps of send_callback:
                \*   started_with_stream, first_init_lock, the send calls in
                \*   progress and the calls of task_status.started

\* The state of the handle() calls and of the transport.
callvars == <<pc, msg, scope, hasSend, borrowers, ctxvar, token, deadline, now,
              seen, sent, out, hist, sending, progressAt, calledAt, reported, asked, actstack, headers,
              httpreq, tpc,
              started_with_stream, response, received, recvOpen>>
\* The stdio transport (what was written to stdout, the transport's tasks)
\* the task group of the streamable transport, and the tool cache of the core.
xvars == <<stdout, stdio, lifecycle, core, latch>>
\* The registries of the three managers.
rvars == <<tools, prompts, resources, regop, toolcall>>
\* The state of one streamable POST outside the handler's task.
tvars == <<headers, httpreq, tpc, started_with_stream, response, received, recvOpen>>

vars == <<pc, msg, scope, hasSend, borrowers, ctxvar, token, deadline, now,
          seen, sent, out, hist, sending, tools, prompts, resources, regop,
          toolcall,
          progressAt, calledAt, reported, asked, actstack, headers, httpreq, tpc,
          started_with_stream, response, received, recvOpen, xvars>>

\* An item on the memory object stream of a POST: the n-th notification the
\* handler sent, or the frame the transport sends last.
StreamItem(kind, n, frame) == [kind |-> kind, n |-> n, frame |-> frame]
NoItem == StreamItem("none", 0, NullFrame)

\* HTTP request headers: the media types of Accept, the Content-Type and the
\* MCP-Protocol-Version header.
Headers(accept, contentType, version) ==
    [accept |-> accept, contentType |-> contentType, version |-> version]
NoHeaders == Headers({}, "absent", "absent")

\* The HTTP method and the body of the request given to dispatch.
HTTPRequest(method, body) == [method |-> method, body |-> body]
NoRequest == HTTPRequest("none", NullMessage)

\* MCPHTTPResponse(status_code, content, media_type, headers); content is a
\* frame, "stream" for the receive stream, or None.
MCPHTTPResponse(status, content, body, media, hdrs) ==
    [status |-> status, content |-> content, body |-> body, media |-> media,
     headers |-> hdrs]
NoResponse == MCPHTTPResponse("none", "None", NullFrame, "None", "None")

(* ---------------------------- stdio transport ------------------------- *)
\* The characters of a message text: line feed, carriage return, one other
\* character, and "e" for the text of a frame the transport builds itself.
LF == "LF"
CR == "CR"
Chars == {"x", LF, CR}
StdioTexts == UNION {[1..n -> Chars] : n \in 0..MaxTextLen}

\* What write_msg is given: a Message (a text) or a member of NoMessage.
StdioMessage(text) == [kind |-> "Message", text |-> text]
StdioNoMessage == [kind |-> "NoMessage", text |-> <<>>]
StdioResponses == {StdioMessage(x) : x \in StdioTexts} \cup {StdioNoMessage}

\* `"\n" in value or "\r" in value`.
has_newline(text) == \E i \in 1..Len(text) : text[i] \in {LF, CR}

\* A write_msg that writes whatever it is given.
write_msg_unchecked(written, value) ==
    IF value.kind = "NoMessage" THEN [raised |-> FALSE, stdout |-> written]
    ELSE [raised |-> FALSE, stdout |-> Append(written, value.text \o <<LF>>)]

\* stdio.write_msg(value) on the writes made so far: whether it
\* raised ValueError, and the writes afterwards.
write_msg(written, value) ==
    IF value.kind = "NoMessage" THEN [raised |-> FALSE, stdout |-> written]
    ELSE IF has_newline(value.text) THEN [raised |-> TRUE, stdout |-> written]
    ELSE [raised |-> FALSE, stdout |-> Append(written, value.text \o <<LF>>)]

\* The frame _handle_message builds with json_rpc.build_error_message for an
\* exception of the handler: one line of JSON.
StdioErrorFrame == StdioMessage(<<"e">>)

\* How the handler given to the transport ends: it returns a Message or a
\* NoMessage, raises InvalidMessageError carrying a response, or raises
\* another exception.
StdioOutcome(kind, value) == [kind |-> kind, value |-> value]
StdioOutcomes ==
    {StdioOutcome("returned", r) : r \in StdioResponses}
      \cup {StdioOutcome("InvalidMessageError", StdioMessage(x)) : x \in StdioTexts}
      \cup {StdioOutcome("Exception", StdioNoMessage)}

\* _handle_message: the response it writes for an outcome of the handler.
handle_message_response(outcome) ==
    IF outcome.kind = "Exception" THEN StdioErrorFrame ELSE outcome.value

\* The lines stdin gives: an empty line, a line of white space, and a message
\* with white space around it.
SP == " "
InputLines == {<<LF>>, <<SP, LF>>, <<SP, "x", LF>>}

\* A strip that removes the line terminator only.
strip_newline_only(line) ==
    IF line # <<>> /\ line[Len(line)] = LF THEN SubSeq(line, 1, Len(line) - 1) ELSE line

\* str.strip(): the text without its leading and trailing white space.
strip(line) ==
    LET kept == {i \in 1..Len(line) : line[i] \notin {SP, LF, CR}}
    IN IF kept = {} THEN <<>>
       ELSE SubSeq(line, CHOOSE i \in kept : \A j \in kept : i <= j,
                         CHOOSE i \in kept : \A j \in kept : j <= i)

\* A _handle_message task, one for each line of stdin: "none" (the line is
\* not read yet), "skipped" (the line was blank: no task), "handler"
\* (awaiting the handler), "done", "failed" (an exception left the task) or
\* "cancelled"; outcome is how its handler ended.
StdioTask(tpc_, outcome) == [pc |-> tpc_, outcome |-> outcome]
StdioTasks == 1..NumLines
NoOutcome == StdioOutcome("none", StdioNoMessage)

\* The last call of write_msg: its argument and whether it raised; n counts
\* the calls.
WriteCall(n, value, raised) == [n |-> n, response |-> value, raised |-> raised]

\* The last line read from stdin; n counts the lines read.
ReadCall(n, line) == [n |-> n, line |-> line]

StdioInit ==
    [state |-> "running",
     tasks |-> [i \in StdioTasks |-> StdioTask("none", NoOutcome)],
     last |-> WriteCall(0, StdioNoMessage, FALSE),
     read |-> ReadCall(0, <<>>)]

(* ----------------------- ServerCore._tool_cache ------------------------ *)
\* The state of the core: _tool_cache, a dict from tool names to Tool
\* definitions; dispatched counts the tools/list and tools/call messages
\* handled, and name is the tool the last of them called (NoName for
\* tools/list).
Core(tool_cache, dispatched, name) ==
    [tool_cache |-> tool_cache, dispatched |-> dispatched, name |-> name]
NoName == <<"none", 0>>
\* After ServerCore.__init__: the cache is empty.
CoreInit == Core(<<>>, 0, NoName)

(* ------------- _handle_request at the steps of send_callback ----------- *)
\* flag: started_with_stream. lock: the sender holding first_init_lock, 0
\* for none. calls: the calls of task_status.started; first: what the first
\* of them passed ("stream" or "result"). pcs: where each send_callback call
\* stands ("idle", "check" before the fast-path test, "lock" waiting for the
\* lock, "locked" holding it, "send" at send_stream.send). request: "none",
\* "running" (handle() awaited), "finished" or "cancelled". sends counts the
\* calls of send_callback; contended: a sender found the flag set once it
\* held the lock.
Senders == 1..NumSenders
Latch(flag, lock, calls, first, pcs, request, sends, contended) ==
    [flag |-> flag, lock |-> lock, calls |-> calls, first |-> first, pcs |-> pcs,
     request |-> request, sends |-> sends, contended |-> contended]
LatchInit == Latch(FALSE, 0, 0, "none", [s \in Senders |-> "idle"], "none", 0, FALSE)

\* A first-time initialisation that does not look at the flag again once it
\* holds the lock.
first_init_unchecked(l) == TRUE

\* The test made under first_init_lock: `if not started_with_stream`.
first_init(l) == ~l.flag

\* task_status.started(response) is called.
task_status_started(l, with) ==
    [l EXCEPT !.calls = @ + 1, !.first = IF l.calls = 0 THEN with ELSE @]

(* ------------------- StreamableHTTPTransport start/close --------------- *)
\* tg: self._tg is not None. open: __aenter__ has returned and __aexit__ has
\* not been called since. cycles counts the closes, rejected the POSTs that
\* raised MCPRuntimeError.
Lifecycle(tg, open, cycles, rejected) ==
    [tg |-> tg, open |-> open, cycles |-> cycles, rejected |-> rejected]
\* After __init__: self._tg = None.
NotStarted == Lifecycle(FALSE, FALSE, 0, 0)

\* __aenter__: the exit stack is entered and a task group created in it.
Transport_aenter(l) == [l EXCEPT !.tg = TRUE, !.open = TRUE]

\* An __aexit__ that leaves self._tg as it is.
Transport_aexit_keeps_tg(l) == [l EXCEPT !.open = FALSE, !.cycles = @ + 1]

\* __aexit__: the stack is unwound, self._tg = None and a fresh AsyncExitStack
\* is put in place.
Transport_aexit(l) == [l EXCEPT !.tg = FALSE, !.open = FALSE, !.cycles = @ + 1]

Scopes == {"scopeA", "scopeB"}

\* managers.context_manager.Context; responder is the task whose call built
\* the Responder, 0 for None.
Context(message, sc, responder) ==
    [active |-> TRUE, message |-> message, scope |-> sc, responder |-> responder]
NoContext == [active |-> FALSE, message |-> NullMessage, scope |-> "None", responder |-> 0]

\* How the handler of a call ended: ev is "none", "returned", "raised",
\* "timeout" (cancelled by its idle deadline), "cancelled" (cancelled from
\* outside) or "failed"; at is where the call was suspended when it ended.
History(ev, e, at) == [ev |-> ev, error |-> e, at |-> at]

\* The calls of Responder.report_progress a handler made, and what the last
\* of them returned: the progress token or None.
Report(calls, returned) == [calls |-> calls, returned |-> returned]
NoReport == Report(0, "None")

\* A call made on a registry: manager, operation, its arguments, and whether
\* it returned (ok) or raised.
RegOp(mgr, op, name, uri, params, ok) ==
    [mgr |-> mgr, op |-> op, name |-> name, uri |-> uri, params |-> params, ok |-> ok]
NoOp == RegOp("none", "none", <<"none", 0>>, <<>>, {}, FALSE)

\* A call of the core's tools/call handler.
ToolCall(made, tool, results, result) ==
    [made |-> made, tool |-> tool, results |-> results, result |-> result]
NoToolCall ==
    ToolCall(FALSE, ToolDef(FALSE, FALSE, {}), ToolResults("raise", "None"),
             CallToolResult(TRUE, "None"))

Init ==
    /\ pc = [t \in Tasks |-> "idle"]
    /\ msg = [t \in Tasks |-> NullMessage]
    /\ scope = [t \in Tasks |-> "None"]
    /\ hasSend = [t \in Tasks |-> FALSE]
    /\ borrowers = {}
    /\ ctxvar = [t \in Tasks |-> NoContext]
    /\ token = [t \in Tasks |-> NoContext]
    /\ deadline = [t \in Tasks |-> 0]
    /\ now = 0
    /\ seen = [t \in Tasks |-> NoContext]
    /\ sent = [t \in Tasks |-> <<>>]
    /\ out = [t \in Tasks |-> Pending]
    /\ hist = [t \in Tasks |-> History("none", NoError, "idle")]
    /\ sending = NoItem
    /\ progressAt = [t \in Tasks |-> 0]
    /\ calledAt = [t \in Tasks |-> 0]
    /\ reported = [t \in Tasks |-> NoReport]
    /\ asked = [t \in Tasks |-> "none"]
    /\ actstack = [t \in Tasks |-> <<>>]
    /\ tools = <<>>
    /\ prompts = <<>>
    /\ resources = <<>>
    /\ regop = NoOp
    /\ toolcall = NoToolCall
    /\ headers = NoHeaders
    /\ httpreq = NoRequest
    /\ tpc = "idle"
    /\ started_with_stream = FALSE
    /\ response = NoResponse
    /\ received = <<>>
    /\ recvOpen = TRUE
    /\ stdout = <<>>
    /\ stdio = StdioInit
    /\ lifecycle = NotStarted
    /\ core = CoreInit
    /\ latch = LatchInit

(* ------------------------ limiter and context ------------------------- *)

\* A token read from params._meta of whatever message carries one.
get_progress_token_of_any_message(message) ==
    IF parse_message(message).ok /\ message.part = "params+progressToken"
       THEN "token"
       ELSE "None"

\* Responder._get_progress_token: the token of a message that validates as a
\* client request and carries params._meta.progressToken, else None.
get_progress_token(message) ==
    IF /\ parse_message(message).ok
       /\ RootKind(message) = "request"
       /\ ClientRequest_validates(message)
       /\ message.part = "params+progressToken"
       THEN "token"
       ELSE "None"

\* A limiter that admits one call too many.
CapacityLimiter_available_off_by_one(b) == Cardinality(b) <= MaxConcurrency

\* CapacityLimiter(max_concurrency): a token is free.
CapacityLimiter_available(b) == Cardinality(b) < MaxConcurrency


\* A context kept in a plain attribute shared by all tasks.
ContextVar_set_shared(cv, t, c) == [u \in Tasks |-> c]

\* ContextVar.set / ContextVar.reset: the variable is local to the task.
ContextVar_set(cv, t, c) == [cv EXCEPT ![t] = c]

\* An active() that leaves the context set on exit.
ContextVar_reset_skipped(cv, t, old) == cv

ContextVar_reset(cv, t, old) == [cv EXCEPT ![t] = old]

\* The MiniMCP instances of a process: the one whose handle() the calls of
\* the model are made on, and another one that handles nothing.
ThisServer == "A"
Servers == {"A", "B"}

\* self._ctx of the ContextManager of server s: _ctx is assigned in the class
\* body, so every instance reads and writes the one ContextVar("ctx").
ContextManager_ctx(cv, s) == cv

\* ContextManager.get in task t: the value of the variable, or ContextError
\* when the variable has none (LookupError).
ContextManager_get(cv, t) == cv[t]
ContextManager_get_raises(cv, t) == ~cv[t].active

\* A reset that leaves the deadline where it was.
TimeLimiter_reset_keeps_deadline(t) ==
    [deadline EXCEPT ![t] = IF @ = 0 THEN now + IdleTimeout ELSE @]

\* TimeLimiter.reset: the deadline is current_time() + timeout.
TimeLimiter_reset(t) == [deadline EXCEPT ![t] = now + IdleTimeout]

\* A TimeLimiter made when handle() is called, before the capacity limiter
\* is entered.
TimeLimiter_init_at_call(t) == [deadline EXCEPT ![t] = calledAt[t] + IdleTimeout]

\* TimeLimiter(self._idle_timeout) inside `async with self._capacity_limiter`:
\* __init__ makes the scope and calls reset().
TimeLimiter_init(t) == TimeLimiter_reset(t)

(* ----------------------------- registries ----------------------------- *)
\* The names handlers are registered under; a lambda has no usable name.
MaxNames == 2
Lambda == <<"<lambda>", 0>>
FuncNames == {Lambda} \cup {<<"name", i>> : i \in 1..MaxNames}

\* A dict as the sequence of its entries in insertion order: its keys, a
\* store under a key (a new key goes last, a known key keeps its place) and
\* pop.
RECURSIVE SeqWithout(_, _)
SeqWithout(d, i) ==
    IF d = <<>> THEN <<>>
    ELSE IF i = 1 THEN Tail(d)
    ELSE <<Head(d)>> \o SeqWithout(Tail(d), i - 1)
dict_keys(d) == {d[i].name : i \in DOMAIN d}
dict_index(d, k) == CHOOSE i \in DOMAIN d : d[i].name = k
dict_set(d, v) ==
    IF v.name \in dict_keys(d) THEN [d EXCEPT ![dict_index(d, v.name)] = v]
    ELSE Append(d, v)
dict_pop(d, k) == SeqWithout(d, dict_index(d, k))

\* validate_func_name: a missing name and the name of a lambda are refused.
validate_func_name(name) == name # Lambda

\* What a registry call does: it returns (ok) or raises, and leaves the dict.
RegResult(ok, d) == [ok |-> ok, dict |-> d]

\* An add that stores without looking the name up.
ToolManager_add_unchecked(d, name, tool) ==
    IF ~validate_func_name(name) THEN RegResult(FALSE, d)
    ELSE RegResult(TRUE, dict_set(d, [name |-> name, tool |-> tool]))

\* ToolManager.add, remove and list; tool is the types.Tool that add builds
\* from the function, with the output schema of the function.
ToolManager_add(d, name, tool) ==
    IF ~validate_func_name(name) THEN RegResult(FALSE, d)
    ELSE IF name \in dict_keys(d) THEN RegResult(FALSE, d)
    ELSE RegResult(TRUE, dict_set(d, [name |-> name, tool |-> tool]))
ToolManager_remove(d, name) ==
    IF name \notin dict_keys(d) THEN RegResult(FALSE, d)
    ELSE RegResult(TRUE, dict_pop(d, name))
ToolManager_list(d) == [i \in DOMAIN d |-> d[i].name]

\* The list_tools handler: the cache is cleared and refilled with the tools
\* ToolManager.list() gives.
tool_cache_refresh(d) == [i \in DOMAIN d |-> [name |-> d[i].name, tool |-> d[i].tool]]

\* ServerCore._get_cached_tool_definition: on a miss the cache is refreshed
\* through the list_tools handler; the Tool found, or None.
get_cached_tool_definition(cache, d, name) ==
    LET c == IF name \notin dict_keys(cache) THEN tool_cache_refresh(d) ELSE cache
    IN [tool_cache |-> c,
        tool |-> IF name \in dict_keys(c) THEN c[dict_index(c, name)].tool
                 ELSE ToolDef(FALSE, FALSE, {})]

\* PromptManager.add, remove and list.
PromptManager_add(d, name) ==
    IF ~validate_func_name(name) THEN RegResult(FALSE, d)
    ELSE IF name \in dict_keys(d) THEN RegResult(FALSE, d)
    ELSE RegResult(TRUE, dict_set(d, [name |-> name]))
PromptManager_remove(d, name) ==
    IF name \notin dict_keys(d) THEN RegResult(FALSE, d)
    ELSE RegResult(TRUE, dict_pop(d, name))
PromptManager_list(d) == [i \in DOMAIN d |-> d[i].name]

\* mcp.tool.add(func, name=...) / mcp.tool.remove(name) is called.
ToolAdd(name, tool) ==
    /\ tools' = ToolManager_add(tools, name, tool).dict
    /\ regop' = RegOp("tool", "add", name, <<>>, {}, ToolManager_add(tools, name, tool).ok)
    /\ UNCHANGED <<prompts, resources>>
    /\ UNCHANGED <<callvars, xvars, toolcall>>
ToolRemove(name) ==
    /\ tools' = ToolManager_remove(tools, name).dict
    /\ regop' = RegOp("tool", "remove", name, <<>>, {}, ToolManager_remove(tools, name).ok)
    /\ UNCHANGED <<prompts, resources>>
    /\ UNCHANGED <<callvars, xvars, toolcall>>

\* mcp.prompt.add(func, name=...) / mcp.prompt.remove(name) is called.
PromptAdd(name) ==
    /\ prompts' = PromptManager_add(prompts, name).dict
    /\ regop' = RegOp("prompt", "add", name, <<>>, {}, PromptManager_add(prompts, name).ok)
    /\ UNCHANGED <<tools, resources>>
    /\ UNCHANGED <<callvars, xvars, toolcall>>
PromptRemove(name) ==
    /\ prompts' = PromptManager_remove(prompts, name).dict
    /\ regop' = RegOp("prompt", "remove", name, <<>>, {}, PromptManager_remove(prompts, name).ok)
    /\ UNCHANGED <<tools, resources>>
    /\ UNCHANGED <<callvars, xvars, toolcall>>

\* A URI as the sequence of its path segments; a segment is a literal or a
\* placeholder {name}.  The URIs and handler signatures resources are
\* registered with: "" is the missing URI.
Placeholders == {"{id}", "{uid}"}
ParamName(segment) == IF segment = "{id}" THEN "id" ELSE "uid"
ResourceURIs ==
    {<<>>, <<"users", "{id}">>, <<"users", "{uid}">>, <<"users", "|">>,
     <<"users", "all">>}
FuncParams == {{}, {"id"}, {"uid"}}

\* A normalisation that keeps the placeholder names.
get_normalized_uri_keeps_names(uri) == uri

\* ResourceManager._get_normalized_uri: every placeholder becomes "|".
get_normalized_uri(uri) ==
    [i \in DOMAIN uri |-> IF uri[i] \in Placeholders THEN "|" ELSE uri[i]]

\* set(TEMPLATE_PARAM_REGEX.findall(uri)): the placeholder names of a URI.
uri_params(uri) == {ParamName(uri[i]) : i \in {j \in DOMAIN uri : uri[j] \in Placeholders}}

\* _ResourceDetails of a registered entry.
ResourceDetails(name, uri, normalized_uri, params, template) ==
    [name |-> name, uri |-> uri, normalized_uri |-> normalized_uri,
     params |-> params, template |-> template]

\* A template is registered when uri_params or func_params is non-empty.
is_template(uri, func_params) == uri_params(uri) # {} \/ func_params # {}

\* A template check that lets every signature pass.
params_mismatch_never(uri, func_params) == FALSE

\* The check made of a template: placeholders and parameters differ.
params_mismatch(uri, func_params) == uri_params(uri) # func_params

\* ResourceManager.add and remove.
ResourceManager_add(d, name, uri, func_params) ==
    IF uri = <<>> THEN RegResult(FALSE, d)
    ELSE IF ~validate_func_name(name) THEN RegResult(FALSE, d)
    ELSE IF name \in dict_keys(d) THEN RegResult(FALSE, d)
    ELSE IF \E i \in DOMAIN d : d[i].normalized_uri = get_normalized_uri(uri)
        THEN RegResult(FALSE, d)
    ELSE IF is_template(uri, func_params)
        THEN IF params_mismatch(uri, func_params) THEN RegResult(FALSE, d)
             ELSE RegResult(TRUE, dict_set(d, ResourceDetails(
                     name, uri, get_normalized_uri(uri), func_params, TRUE)))
    ELSE RegResult(TRUE, dict_set(d, ResourceDetails(name, uri, uri, func_params, FALSE)))
ResourceManager_remove(d, name) ==
    IF name \notin dict_keys(d) THEN RegResult(FALSE, d)
    ELSE RegResult(TRUE, dict_pop(d, name))

\* The URIs clients read, and the resources/read requests for them.
ReadURIs == {<<"users", "42">>, <<"users", "all">>, <<"other">>}
ReadResourceMessages ==
    {[text |-> "object", jsonrpc |-> "2.0", id |-> <<"id", 1>>,
      method |-> "resources/read", part |-> "params", uri |-> u] : u \in ReadURIs}

\* _uri_to_pattern(template).match(uri): the literal segments are equal and
\* every placeholder takes one segment.
uri_pattern_match(template, uri) ==
    /\ Len(template) = Len(uri)
    /\ \A i \in DOMAIN template : template[i] \in Placeholders \/ template[i] = uri[i]

\* ResourceManager._find_matching_details for the URI of a resources/read
\* request: a static resource with that URI, or a template whose pattern
\* matches it, is found.
find_matching_details(d, message) ==
    /\ message.method \in ResourceMethods
    /\ \/ \E i \in DOMAIN d : ~d[i].template /\ d[i].normalized_uri = message.uri
       \/ \E i \in DOMAIN d : d[i].template /\ uri_pattern_match(d[i].uri, message.uri)

\* match.groupdict() of a template's pattern on a URI it matches: every
\* placeholder name with the segment it captured.
groupdict(template, uri) ==
    {<<ParamName(template[i]), uri[i]>> : i \in {j \in DOMAIN template : template[j] \in Placeholders}}

\* What _find_matching_details returns: the entry found (found, name) and
\* the arguments; args is empty for None and for a dict without captures.
Details(found, name, args) == [found |-> found, name |-> name, args |-> args]
FirstIndex(S) == CHOOSE i \in S : \A j \in S : i <= j

\* A lookup in a single pass over the entries: the first entry that matches
\* the URI as a static resource or as a template is returned.
ResourceManager_find_matching_details_single_pass(d, uri) ==
    LET hits == {i \in DOMAIN d : \/ ~d[i].template /\ d[i].normalized_uri = uri
                                  \/ d[i].template /\ uri_pattern_match(d[i].uri, uri)}
    IN IF hits = {} THEN Details(FALSE, <<"none", 0>>, {})
       ELSE LET r == d[FirstIndex(hits)]
            IN Details(TRUE, r.name, IF r.template THEN groupdict(r.uri, uri) ELSE {})

\* ResourceManager._find_matching_details(uri) with the entry it returns: a
\* first loop over self._resources.values() looks for a Resource whose
\* normalized_uri equals the URI, a second one for the first entry with a
\* uri_pattern that matches.
ResourceManager_find_matching_details(d, uri) ==
    LET exact == {i \in DOMAIN d : ~d[i].template /\ d[i].normalized_uri = uri}
        byPattern == {i \in DOMAIN d : d[i].template /\ uri_pattern_match(d[i].uri, uri)}
    IN IF exact # {} THEN Details(TRUE, d[FirstIndex(exact)].name, {})
       ELSE IF byPattern # {}
           THEN Details(TRUE, d[FirstIndex(byPattern)].name,
                        groupdict(d[FirstIndex(byPattern)].uri, uri))
       ELSE Details(FALSE, <<"none", 0>>, {})

\* mcp.resource.add(func, uri, name=...) / mcp.resource.remove(name) is called.
ResourceAdd(name, uri, func_params) ==
    /\ resources' = ResourceManager_add(resources, name, uri, func_params).dict
    /\ regop' = RegOp("resource", "add", name, uri, func_params,
                      ResourceManager_add(resources, name, uri, func_params).ok)
    /\ UNCHANGED <<tools, prompts>>
    /\ UNCHANGED <<callvars, xvars, toolcall>>
ResourceRemove(name) ==
    /\ resources' = ResourceManager_remove(resources, name).dict
    /\ regop' = RegOp("resource", "remove", name, <<>>, {},
                      ResourceManager_remove(resources, name).ok)
    /\ UNCHANGED <<tools, prompts>>
    /\ UNCHANGED <<callvars, xvars, toolcall>>

\* ResourceManager.read(uri) up to the call of the resource function: the
\* entry and the arguments it is about to be called with, or ValueError.
ResourceRead(uri) ==
    /\ LET found == ResourceManager_find_matching_details(resources, uri)
       IN regop' = RegOp("resource", "read", found.name, uri, found.args, found.found)
    /\ UNCHANGED <<tools, prompts, resources>>
    /\ UNCHANGED <<callvars, xvars, toolcall>>

\* The core's tools/call handler runs for a tool whose definition is tool
\* and whose function gives results.
CoreCallTool(tool, results) ==
    /\ toolcall' = ToolCall(TRUE, tool, results, call_tool_output(tool, results))
    /\ UNCHANGED <<callvars, xvars, tools, prompts, resources, regop>>

(* ------------------------------ actions ------------------------------- *)
\* A limiter whose token is given back only when the body ends without
\* being cancelled.
LeaveLimiter_keeps_token_when_cancelled(t, b) ==
    /\ pc' = [pc EXCEPT ![t] = "done"]
    /\ out' = [out EXCEPT ![t] = IF b.kind = "fault" THEN Raised(b.exc, NullFrame)
                                  ELSE handle_finish(b, msg[t])]
    /\ ctxvar' = ContextVar_reset(ctxvar, t, token[t])
    /\ borrowers' = IF b.kind = "raise" /\ b.exc \in {"Cancelled", "CancelledByDeadline"}
                       THEN borrowers ELSE borrowers \ {t}
    /\ deadline' = [deadline EXCEPT ![t] = 0]
    /\ sending' = IF pc[t] = "sending" THEN NoItem ELSE sending
    /\ progressAt' = [progressAt EXCEPT ![t] = 0]
    /\ calledAt' = [calledAt EXCEPT ![t] = 0]
    /\ UNCHANGED reported
    /\ UNCHANGED asked
    /\ actstack' = [actstack EXCEPT ![t] = <<>>]
    /\ UNCHANGED tvars

\* handle() leaves `async with self._limiter()` with body result b: the
\* context is reset, the token released, and the outcome decided.
LeaveLimiter(t, b) ==
    /\ pc' = [pc EXCEPT ![t] = "done"]
    /\ out' = [out EXCEPT ![t] = IF b.kind = "fault" THEN Raised(b.exc, NullFrame)
                                  ELSE handle_finish(b, msg[t])]
    /\ ctxvar' = ContextVar_reset(ctxvar, t, token[t])
    /\ borrowers' = borrowers \ {t}
    /\ deadline' = [deadline EXCEPT ![t] = 0]
    /\ sending' = IF pc[t] = "sending" THEN NoItem ELSE sending
    /\ progressAt' = [progressAt EXCEPT ![t] = 0]
    /\ calledAt' = [calledAt EXCEPT ![t] = 0]
    /\ UNCHANGED reported
    /\ UNCHANGED asked
    /\ actstack' = [actstack EXCEPT ![t] = <<>>]
    /\ UNCHANGED tvars

\* MiniMCP.handle(m, send, sc) is called in task t: the message is parsed; a
\* parse failure ends the call before the limiter is touched.
CallHandle(t, m, sc, snd) ==
    /\ pc[t] = "idle"
    /\ msg' = [msg EXCEPT ![t] = m]
    /\ scope' = [scope EXCEPT ![t] = sc]
    /\ hasSend' = [hasSend EXCEPT ![t] = snd]
    /\ IF parse_message(m).ok
          THEN /\ pc' = [pc EXCEPT ![t] = "acquiring"]
               /\ out' = out
          ELSE /\ pc' = [pc EXCEPT ![t] = "done"]
               /\ out' = [out EXCEPT ![t] = handle_except(parse_message(m).err, m)]
    /\ calledAt' = [calledAt EXCEPT ![t] = IF parse_message(m).ok THEN now ELSE 0]
    /\ UNCHANGED reported
    /\ UNCHANGED asked
    /\ UNCHANGED <<borrowers, ctxvar, token, deadline, now, rvars, xvars, seen, sent, hist,
                   sending,
                   progressAt, actstack>>

\* A caller other than the streamable transport calls handle().
HandleCall(t, m, sc, snd) ==
    /\ CallHandle(t, m, sc, snd)
    /\ UNCHANGED tvars

\* A limiter entered with acquire_nowait: a call that finds no token free is
\* turned away with an error frame.
Enter_nowait(t) ==
    /\ pc[t] = "acquiring"
    /\ LET b == IF CapacityLimiter_available(borrowers)
                   THEN handle_rpc_msg_start(msg[t], find_matching_details(resources, msg[t])) ELSE BodyRaise("WouldBlock")
           c == Context(msg[t], scope[t], IF hasSend[t] THEN t ELSE 0)
       IN IF b.kind = "await"
             THEN /\ pc' = [pc EXCEPT ![t] = "running"]
                  /\ borrowers' = borrowers \cup {t}
                  /\ deadline' = TimeLimiter_init(t)
                  /\ token' = [token EXCEPT ![t] = ctxvar[t]]
                  /\ ctxvar' = ContextVar_set(ctxvar, t, c)
                  /\ out' = out
             ELSE /\ pc' = [pc EXCEPT ![t] = "done"]
                  /\ out' = [out EXCEPT ![t] = handle_finish(b, msg[t])]
                  /\ UNCHANGED <<borrowers, deadline, token, ctxvar>>
    /\ progressAt' = [progressAt EXCEPT ![t] = IF pc'[t] = "running" THEN now ELSE 0]
    /\ calledAt' = [calledAt EXCEPT ![t] = IF pc'[t] = "running" THEN @ ELSE 0]
    /\ UNCHANGED reported
    /\ UNCHANGED asked
    /\ UNCHANGED actstack
    /\ UNCHANGED <<msg, scope, hasSend, now, rvars, xvars, seen, sent, hist, sending>>
    /\ UNCHANGED tvars

\* The call of task t acquires the limiter, builds responder and context,
\* activates the context and dispatches; it runs on until the user handler
\* first suspends, or until handle() is over when nothing suspends.
Enter(t) ==
    /\ pc[t] = "acquiring"
    /\ CapacityLimiter_available(borrowers)
    /\ LET b == handle_rpc_msg_start(msg[t], find_matching_details(resources, msg[t]))
           c == Context(msg[t], scope[t], IF hasSend[t] THEN t ELSE 0)
       IN IF b.kind = "await"
             THEN /\ pc' = [pc EXCEPT ![t] = "running"]
                  /\ borrowers' = borrowers \cup {t}
                  /\ deadline' = TimeLimiter_init(t)
                  /\ token' = [token EXCEPT ![t] = ctxvar[t]]
                  /\ ctxvar' = ContextVar_set(ctxvar, t, c)
                  /\ out' = out
             ELSE /\ pc' = [pc EXCEPT ![t] = "done"]
                  /\ out' = [out EXCEPT ![t] = handle_finish(b, msg[t])]
                  /\ UNCHANGED <<borrowers, deadline, token, ctxvar>>
    /\ progressAt' = [progressAt EXCEPT ![t] = IF pc'[t] = "running" THEN now ELSE 0]
    /\ calledAt' = [calledAt EXCEPT ![t] = IF pc'[t] = "running" THEN @ ELSE 0]
    /\ UNCHANGED reported
    /\ UNCHANGED asked
    /\ UNCHANGED actstack
    /\ UNCHANGED <<msg, scope, hasSend, now, rvars, xvars, seen, sent, hist, sending>>
    /\ UNCHANGED tvars

\* The handler of a message of the server calls context.get() of server s,
\* its own or another MiniMCP instance of the process.
HandlerGetContextOf(t, s) ==
    /\ pc[t] = "running"
    /\ seen' = [seen EXCEPT ![t] = ContextManager_get(ContextManager_ctx(ctxvar, s), t)]
    /\ asked' = [asked EXCEPT ![t] = s]
    /\ UNCHANGED <<pc, msg, scope, hasSend, borrowers, ctxvar, token, deadline,
                   now, rvars, xvars, sent, out, hist, sending,
                   progressAt, calledAt, reported, actstack>>
    /\ UNCHANGED tvars

\* The user handler reads the ambient context of its own server.
HandlerGetContext(t) == HandlerGetContextOf(t, ThisServer)

\* Responder.send_notification with a send callback that completes at once:
\* the idle deadline is reset, then send is awaited with the notification.
Responder_send_notification(t) ==
    /\ pc[t] = "running"
    /\ ContextManager_get(ctxvar, t).responder # 0
    /\ Len(sent[t]) < MaxSends
    /\ deadline' = TimeLimiter_reset(t)
    /\ progressAt' = [progressAt EXCEPT ![t] = now]
    /\ UNCHANGED calledAt
    /\ UNCHANGED actstack
    /\ sent' = [sent EXCEPT ![t] = Append(@, Len(@) + 1)]
    /\ UNCHANGED <<pc, msg, scope, hasSend, borrowers, ctxvar, token, now, rvars, xvars, seen,
                   out, hist, sending>>
    /\ UNCHANGED tvars

\* The user handler calls responder.send_notification.
HandlerSend(t) ==
    /\ Responder_send_notification(t)
    /\ UNCHANGED reported
    /\ UNCHANGED asked

\* The user handler calls responder.report_progress: without a progress
\* token it logs a warning and returns None; with one it sends the progress
\* notification through send_notification and returns the token.
HandlerReportProgress(t) ==
    /\ pc[t] = "running"
    /\ ContextManager_get(ctxvar, t).responder # 0
    /\ reported[t].calls < MaxReports
    /\ UNCHANGED asked
    /\ LET progress_token == get_progress_token(msg[t])
       IN /\ reported' = [reported EXCEPT ![t] = Report(@.calls + 1, progress_token)]
          /\ IF progress_token = "None"
                THEN UNCHANGED <<pc, msg, scope, hasSend, borrowers, ctxvar, token, deadline,
                                 now, rvars, xvars, seen, sent, out, hist, sending,
                                 progressAt, calledAt, actstack, tvars>>
                ELSE Responder_send_notification(t)

\* The user handler enters `with mcp.context.active(c)` itself, inside the
\* context handle() made active: the variable is set and the token kept.
MaxNesting == 2
ContextActive(t, c) ==
    /\ pc[t] = "running"
    /\ Len(actstack[t]) < MaxNesting
    /\ actstack' = [actstack EXCEPT ![t] = Append(@, ctxvar[t])]
    /\ ctxvar' = ContextVar_set(ctxvar, t, c)
    /\ UNCHANGED <<pc, msg, scope, hasSend, borrowers, token, deadline, now, rvars, xvars,
                   seen, sent, out, hist, sending, progressAt, calledAt, reported, asked>>
    /\ UNCHANGED tvars

\* The user handler leaves its innermost active() block: the variable is
\* reset to the token of that block.
ContextActiveExit(t) ==
    /\ pc[t] = "running"
    /\ actstack[t] # <<>>
    /\ ctxvar' = ContextVar_reset(ctxvar, t, actstack[t][Len(actstack[t])])
    /\ actstack' = [actstack EXCEPT ![t] = SubSeq(@, 1, Len(@) - 1)]
    /\ UNCHANGED <<pc, msg, scope, hasSend, borrowers, token, deadline, now, rvars, xvars,
                   seen, sent, out, hist, sending, progressAt, calledAt, reported, asked>>
    /\ UNCHANGED tvars

\* The user handler returns.
HandlerReturn(t) ==
    /\ pc[t] = "running"
    /\ hist' = [hist EXCEPT ![t] = History("returned", NoError, pc[t])]
    /\ LeaveLimiter(t, handle_rpc_msg_finish(msg[t], TRUE, NoError))
    /\ UNCHANGED <<msg, scope, hasSend, token, now, rvars, xvars, seen, sent>>

\* The user handler raises e.
HandlerRaise(t, e) ==
    /\ pc[t] = "running"
    /\ hist' = [hist EXCEPT ![t] = History("raised", e, pc[t])]
    /\ LeaveLimiter(t, handle_rpc_msg_finish(msg[t], FALSE, e))
    /\ UNCHANGED <<msg, scope, hasSend, token, now, rvars, xvars, seen, sent>>

\* The idle deadline of the call is reached while its handler is suspended,
\* in its own await or inside send: the cancel scope of the TimeLimiter
\* cancels the handler.
IdleDeadline(t) ==
    /\ pc[t] \in {"running", "sending"}
    /\ now >= deadline[t]
    /\ hist' = [hist EXCEPT ![t] = History("timeout", NoError, pc[t])]
    /\ LeaveLimiter(t, BodyRaise("CancelledByDeadline"))
    /\ UNCHANGED <<msg, scope, hasSend, token, now, rvars, xvars, seen, sent>>

\* The task running handle() is cancelled from outside, while it waits for
\* the limiter or while its handler is suspended.
CancelTask(t) ==
    /\ pc[t] \in {"acquiring", "running", "sending"}
    /\ hist' = [hist EXCEPT ![t] = History("cancelled", NoError, pc[t])]
    /\ LeaveLimiter(t, BodyRaise("Cancelled"))
    /\ UNCHANGED <<msg, scope, hasSend, token, now, rvars, xvars, seen, sent>>

\* Time passes; a deadline that is reached cancels its suspended handler
\* before time moves on.
Tick ==
    /\ now < MaxTime
    /\ \A t \in Tasks : pc[t] \in {"running", "sending"} => now < deadline[t]
    /\ now' = now + 1
    /\ UNCHANGED <<rvars, xvars>>
    /\ UNCHANGED <<pc, msg, scope, hasSend, borrowers, ctxvar, token, deadline,
                   seen, sent, out, hist, sending,
                   progressAt, calledAt, reported, asked, actstack>>
    /\ UNCHANGED tvars

(* --------------------------- HTTP transports -------------------------- *)
MEDIA_TYPE_JSON == "application/json"
MEDIA_TYPE_SSE == "text/event-stream"

\* BaseHTTPTransport.RESPONSE_MEDIA_TYPES and its override in
\* StreamableHTTPTransport.
RESPONSE_MEDIA_TYPES_base == {MEDIA_TYPE_JSON}
RESPONSE_MEDIA_TYPES_streamable == {MEDIA_TYPE_JSON, MEDIA_TYPE_SSE}

\* _validate_accept_headers: every response media type is accepted.
validate_accept_headers(h, required) == required \subseteq h.accept

\* _validate_content_type.
validate_content_type(h) == h.contentType = MEDIA_TYPE_JSON

\* json_rpc.is_initialize_request: the body is a JSON object whose method is
\* "initialize".
is_initialize_request(body) == body.text = "object" /\ body.method = "initialize"

\* A version check that is made for every body, initialize included.
validate_protocol_version_always_checks(h, body) ==
    h.version \in {"supported", "absent"}

\* _validate_protocol_version: skipped for initialize; a missing header means
\* the default negotiated version.
validate_protocol_version(h, body) ==
    is_initialize_request(body) \/ h.version \in {"supported", "absent"}

\* Checks that look at Content-Type before Accept.
request_validation_error_content_type_first(h, body, required) ==
    IF ~validate_content_type(h) THEN "415"
    ELSE IF ~validate_accept_headers(h, required) THEN "406"
    ELSE IF ~validate_protocol_version(h, body) THEN "400"
    ELSE "none"

\* The status of the RequestValidationError the three checks raise, in the
\* order they run, "none" when all pass.
request_validation_error(h, body, required) ==
    IF ~validate_accept_headers(h, required) THEN "406"
    ELSE IF ~validate_content_type(h) THEN "415"
    ELSE IF ~validate_protocol_version(h, body) THEN "400"
    ELSE "none"

\* except RequestValidationError: e.status_code with an INVALID_REQUEST frame.
validation_error_response(status, body) ==
    MCPHTTPResponse(status, "frame", process_error(body, "INVALID_REQUEST"),
                    MEDIA_TYPE_JSON, "None")

\* A response that is 200 whatever handle() returned.
returned_response_always_ok(o) ==
    MCPHTTPResponse("200", IF o.kind = "frame" THEN "frame" ELSE "None", o.frame,
                    MEDIA_TYPE_JSON, "None")

\* The response both transports build from what handle() returned.
returned_response(o) ==
    IF o.kind = "nomessage" THEN MCPHTTPResponse("202", "None", NullFrame, "None", "None")
    ELSE IF o.kind = "frame" THEN MCPHTTPResponse("200", "frame", o.frame, MEDIA_TYPE_JSON, "None")
    ELSE MCPHTTPResponse("200", "None", NullFrame, MEDIA_TYPE_JSON, "None")

\* BaseHTTPTransport._build_unexpected_error_response.
build_unexpected_error_response(body) ==
    MCPHTTPResponse("500", "frame", process_error(body, "INTERNAL_ERROR"),
                    MEDIA_TYPE_JSON, "None")

\* BaseHTTPTransport._handle_post_request once handle() ended with o.
base_http_result(o, body) ==
    IF o.kind # "raised" THEN returned_response(o)
    ELSE IF o.exc = "InvalidMessageError"
        THEN MCPHTTPResponse("400", "frame", o.frame, MEDIA_TYPE_JSON, "None")
    ELSE build_unexpected_error_response(body)

\* BaseHTTPTransport._handle_post_request for headers h and body, where
\* handle(), if it is reached, ends with o.
BaseHTTP_handle_post_request(h, body, o) ==
    IF request_validation_error(h, body, RESPONSE_MEDIA_TYPES_base) # "none"
        THEN validation_error_response(
                 request_validation_error(h, body, RESPONSE_MEDIA_TYPES_base), body)
        ELSE base_http_result(o, body)

\* BaseHTTPTransport._handle_unsupported_request: 405 with an Allow header.
handle_unsupported_request ==
    MCPHTTPResponse("405", "Method Not Allowed", NullFrame, MEDIA_TYPE_JSON, "Allow: POST")

\* BaseHTTPTransport.dispatch(method, h, m, sc) of the plain HTTP transport,
\* up to the call of handle() in task t: a method other than POST is turned
\* away, then the headers are validated, then handle() is called without a
\* send callback.
Dispatch(t, method, h, m, sc) ==
    /\ tpc = "idle"
    /\ headers' = h
    /\ httpreq' = HTTPRequest(method, m)
    /\ LET failure == request_validation_error(h, m, RESPONSE_MEDIA_TYPES_base)
       IN IF method # "POST" \/ failure # "none"
             THEN /\ response' = IF method # "POST" THEN handle_unsupported_request
                                  ELSE validation_error_response(failure, m)
                  /\ tpc' = "closed"
                  /\ UNCHANGED <<pc, msg, scope, hasSend, borrowers, ctxvar, token,
                                 deadline, now, rvars, xvars, seen, sent, out, hist, sending,
                                 progressAt, calledAt, reported, asked, actstack>>
             ELSE /\ CallHandle(t, m, sc, FALSE)
                  /\ tpc' = "handling"
                  /\ response' = response
    /\ UNCHANGED <<started_with_stream, received, recvOpen>>

\* handle() is over in BaseHTTPTransport._handle_post_request: the response
\* is built from what it returned or raised; a cancellation passes through.
HTTPFinish(t) ==
    /\ tpc = "handling"
    /\ pc[t] = "done"
    /\ tpc' = "closed"
    /\ response' = IF out[t].kind = "raised" /\ ~IsException(out[t].exc)
                     THEN response
                     ELSE base_http_result(out[t], msg[t])
    /\ UNCHANGED <<pc, msg, scope, hasSend, borrowers, ctxvar, token, deadline,
                   now, rvars, xvars, seen, sent, out, hist, sending, progressAt, calledAt, reported, asked, actstack,
                   headers, httpreq, started_with_stream, received, recvOpen>>

(* The older plain transport: transports/http.py on http_transport_base.py *)
\* The empty string, which _build_error_result passes as message id.
EmptyStringId == <<"", 0>>

\* HTTPTransportBase._build_error_result: an error frame built by
\* build_error_message(err_code, "", err), which replaces only None by "no-id".
build_error_result(status, err_code) ==
    MCPHTTPResponse(status, "frame", build_error_message(err_code, EmptyStringId),
                    MEDIA_TYPE_JSON, "None")

\* The result of the first failing check of HTTPTransport._handle_post_request,
\* NoResponse when all three pass.
HTTPTransport_checks(h, body) ==
    IF ~validate_accept_headers(h, {MEDIA_TYPE_JSON})
        THEN build_error_result("406", "INVALID_REQUEST")
    ELSE IF ~validate_content_type(h)
        THEN build_error_result("415", "INVALID_REQUEST")
    ELSE IF ~validate_protocol_version(h, body)
        THEN build_error_result("400", "INVALID_REQUEST")
    ELSE NoResponse

\* HTTPTransport._handle_post_request once the handler ended with o.
HTTPTransport_result(o, body) ==
    IF o.kind = "nomessage" THEN MCPHTTPResponse("202", "None", NullFrame, "None", "None")
    ELSE IF o.kind # "raised"
        THEN MCPHTTPResponse("200", IF o.kind = "frame" THEN "frame" ELSE "None", o.frame,
                             MEDIA_TYPE_JSON, "None")
    ELSE IF o.exc = "InvalidMessageError"
        THEN MCPHTTPResponse("400", "frame", o.frame, MEDIA_TYPE_JSON, "None")
    ELSE MCPHTTPResponse("400", "frame", process_error(body, "INTERNAL_ERROR"),
                         MEDIA_TYPE_JSON, "None")

\* HTTPTransport.dispatch(handler, method, h, m) with MiniMCP.handle as the
\* handler, up to the call of the handler in task t.
HTTPTransport_dispatch(t, method, h, m) ==
    /\ tpc = "idle"
    /\ headers' = h
    /\ httpreq' = HTTPRequest(method, m)
    /\ IF method # "POST" \/ HTTPTransport_checks(h, m) # NoResponse
          THEN /\ response' = IF method # "POST"
                                  THEN MCPHTTPResponse("405", "None", NullFrame, "None",
                                                       "Allow: POST")
                                  ELSE HTTPTransport_checks(h, m)
               /\ tpc' = "closed"
               /\ UNCHANGED <<pc, msg, scope, hasSend, borrowers, ctxvar, token,
                              deadline, now, rvars, xvars, seen, sent, out, hist, sending,
                              progressAt, calledAt, reported, asked, actstack>>
          ELSE /\ CallHandle(t, m, "None", FALSE)
               /\ tpc' = "awaiting handler"
               /\ response' = response
    /\ UNCHANGED <<started_with_stream, received, recvOpen>>

\* The handler is over in HTTPTransport._handle_post_request; a cancellation
\* passes through.
HTTPTransport_finish(t) ==
    /\ tpc = "awaiting handler"
    /\ pc[t] = "done"
    /\ tpc' = "closed"
    /\ response' = IF out[t].kind = "raised" /\ ~IsException(out[t].exc)
                     THEN response
                     ELSE HTTPTransport_result(out[t], msg[t])
    /\ UNCHANGED <<pc, msg, scope, hasSend, borrowers, ctxvar, token, deadline,
                   now, rvars, xvars, seen, sent, out, hist, sending, progressAt, calledAt, reported, asked, actstack,
                   headers, httpreq, started_with_stream, received, recvOpen>>

\* StreamableHTTPTransport._handle_request once handle() ended with o.
streamable_result(o, body) ==
    IF o.kind # "raised" THEN returned_response(o)
    ELSE IF o.exc = "InvalidMessageError"
        THEN MCPHTTPResponse("400", "frame", o.frame, MEDIA_TYPE_JSON, "None")
    ELSE MCPHTTPResponse("400", "frame", process_error(body, "INTERNAL_ERROR"),
                         MEDIA_TYPE_JSON, "None")

\* The response the first send commits: 200, the receive stream, SSE_HEADERS.
SSEResponse == MCPHTTPResponse("200", "stream", NullFrame, "None", "SSE_HEADERS")

\* StreamableHTTPTransport._handle_post_request starts _handle_request in
\* task t: the stream pair is created, the headers are validated and handle()
\* is called with send_callback; a failed validation is answered at once.
StreamablePost(t, h, m, sc) ==
    /\ tpc = "idle"
    /\ lifecycle.tg
    /\ headers' = h
    /\ httpreq' = HTTPRequest("POST", m)
    /\ LET failure == request_validation_error(h, m, RESPONSE_MEDIA_TYPES_streamable)
       IN IF failure # "none"
             THEN /\ response' = validation_error_response(failure, m)
                  /\ tpc' = "closed"
                  /\ UNCHANGED <<pc, msg, scope, hasSend, borrowers, ctxvar, token,
                                 deadline, now, rvars, xvars, seen, sent, out, hist, sending,
                   progressAt, calledAt, reported, asked, actstack>>
             ELSE /\ CallHandle(t, m, sc, TRUE)
                  /\ tpc' = "handling"
                  /\ response' = response
    /\ UNCHANGED <<started_with_stream, received, recvOpen>>

\* StreamableHTTPTransport._handle_post_request while self._tg is None:
\* MCPRuntimeError is raised and no task is started.
StreamablePost_not_started ==
    /\ ~lifecycle.tg
    /\ lifecycle.rejected < MaxRejected
    /\ lifecycle' = [lifecycle EXCEPT !.rejected = @ + 1]
    /\ UNCHANGED <<callvars, rvars, stdout, stdio, core, latch>>

\* `async with transport:` is entered.
StreamableStart ==
    /\ ~lifecycle.tg
    /\ lifecycle.cycles < MaxCycles
    /\ lifecycle' = Transport_aenter(lifecycle)
    /\ UNCHANGED <<callvars, rvars, stdout, stdio, core, latch>>

\* `async with transport:` is left while no request is being handled: the
\* exit of the task group has no task to wait for.
StreamableClose ==
    /\ lifecycle.open
    /\ tpc \notin {"handling", "final"}
    /\ lifecycle' = Transport_aexit(lifecycle)
    /\ UNCHANGED <<callvars, rvars, stdout, stdio, core, latch>>

\* The user handler calls responder.send_notification under the streamable
\* transport: the idle deadline is reset; send_callback commits the response
\* to SSE on its first call, then awaits send_stream.send, which blocks until
\* the consumer receives and raises BrokenResourceError, ignored, when the
\* consumer has gone away.
StreamSend(t) ==
    /\ tpc = "handling"
    /\ pc[t] = "running"
    /\ ContextManager_get(ctxvar, t).responder # 0
    /\ Len(sent[t]) < MaxStreamSends
    /\ deadline' = TimeLimiter_reset(t)
    /\ progressAt' = [progressAt EXCEPT ![t] = now]
    /\ UNCHANGED calledAt
    /\ UNCHANGED reported
    /\ UNCHANGED asked
    /\ UNCHANGED actstack
    /\ sent' = [sent EXCEPT ![t] = Append(@, Len(@) + 1)]
    /\ started_with_stream' = TRUE
    /\ response' = IF started_with_stream THEN response ELSE SSEResponse
    /\ IF recvOpen
          THEN /\ pc' = [pc EXCEPT ![t] = "sending"]
               /\ sending' = StreamItem("notification", Len(sent[t]) + 1, NullFrame)
          ELSE UNCHANGED <<pc, sending>>
    /\ UNCHANGED <<msg, scope, hasSend, borrowers, ctxvar, token, now, rvars, xvars, seen, out,
                   hist, headers, httpreq, tpc, received, recvOpen>>

\* What becomes of the blocked sender once its send is over: the handler
\* resumes, or _handle_request leaves `async with send_stream`.
SenderResumes ==
    /\ pc' = [t \in Tasks |-> IF pc[t] = "sending" THEN "running" ELSE pc[t]]
    /\ tpc' = IF tpc = "final" THEN "closed" ELSE tpc

\* The consumer of the response (EventSourceResponse) receives the item a
\* blocked send offers.
ConsumerReceive ==
    /\ response.content = "stream"
    /\ recvOpen
    /\ sending # NoItem
    /\ received' = Append(received, sending)
    /\ sending' = NoItem
    /\ SenderResumes
    /\ UNCHANGED <<msg, scope, hasSend, borrowers, ctxvar, token, deadline, now, rvars, xvars,
                   seen, sent, out, hist, headers, httpreq, started_with_stream, response,
                   recvOpen,
                   progressAt, calledAt, reported, asked, actstack>>

\* A send_callback without the except clause: the BrokenResourceError of a
\* blocked send reaches the handler, which ends with it.
ConsumerClose_raises_into_handler ==
    /\ response.content = "stream"
    /\ recvOpen
    /\ tpc \notin {"closed", "cancelled"}
    /\ recvOpen' = FALSE
    /\ sending' = NoItem
    /\ tpc' = IF tpc = "final" THEN "closed" ELSE tpc
    /\ LET broken == {t \in Tasks : pc[t] = "sending"}
           e == HandlerError("BrokenResourceError", "")
       IN /\ pc' = [t \in Tasks |-> IF t \in broken THEN "done" ELSE pc[t]]
          /\ hist' = [t \in Tasks |-> IF t \in broken THEN History("raised", e, pc[t])
                                      ELSE hist[t]]
          /\ out' = [t \in Tasks |->
                        IF t \in broken
                           THEN handle_finish(handle_rpc_msg_finish(msg[t], FALSE, e), msg[t])
                           ELSE out[t]]
          /\ borrowers' = borrowers \ broken
          /\ ctxvar' = [t \in Tasks |-> IF t \in broken THEN token[t] ELSE ctxvar[t]]
          /\ deadline' = [t \in Tasks |-> IF t \in broken THEN 0 ELSE deadline[t]]
          /\ progressAt' = [t \in Tasks |-> IF t \in broken THEN 0 ELSE progressAt[t]]
          /\ calledAt' = [t \in Tasks |-> IF t \in broken THEN 0 ELSE calledAt[t]]
    /\ UNCHANGED <<msg, scope, hasSend, token, now, rvars, xvars, seen, sent, headers,
                   httpreq, started_with_stream, response, received, reported, asked, actstack>>

\* The client goes away before the stream has ended: the receive stream is
\* closed and a blocked send raises BrokenResourceError, which is ignored.
ConsumerClose ==
    /\ response.content = "stream"
    /\ recvOpen
    /\ tpc \notin {"closed", "cancelled"}
    /\ recvOpen' = FALSE
    /\ sending' = NoItem
    /\ SenderResumes
    /\ UNCHANGED <<msg, scope, hasSend, borrowers, ctxvar, token, deadline, now, rvars, xvars,
                   seen, sent, out, hist, headers, httpreq, started_with_stream, response,
                   received,
                   progressAt, calledAt, reported, asked, actstack>>

\* __aexit__ has been called and has not returned: self._tg is still set.
Closing == lifecycle.tg /\ ~lifecycle.open

\* An exit stack that holds the task group above the streams: its unwinding
\* waits for the request tasks before any stream is closed.
StreamableCloseStreams_waits_for_tasks_first ==
    /\ lifecycle.open
    /\ tpc \in {"handling", "final"}
    /\ lifecycle' = [lifecycle EXCEPT !.open = FALSE]
    /\ UNCHANGED <<callvars, rvars, stdout, stdio, core, latch>>

\* `async with transport:` is left while a request is being handled.
\* self._stack.__aexit__ unwinds in reverse order of entry: the recv_stream
\* and send_stream that _handle_request entered are closed first, and a send
\* blocked on them raises BrokenResourceError, which is ignored; the task
\* group, entered first by __aenter__, is exited last.
StreamableCloseStreams ==
    /\ lifecycle.open
    /\ tpc \in {"handling", "final"}
    /\ lifecycle' = [lifecycle EXCEPT !.open = FALSE]
    /\ recvOpen' = FALSE
    /\ sending' = NoItem
    /\ SenderResumes
    /\ UNCHANGED <<msg, scope, hasSend, borrowers, ctxvar, token, deadline, now, rvars,
                   stdout, stdio, core, latch,
                   seen, sent, out, hist, headers, httpreq, started_with_stream, response,
                   received,
                   progressAt, calledAt, reported, asked, actstack>>

\* The exit of the task group returns once the task of _handle_request is
\* over; __aexit__ then sets self._tg = None and returns.
StreamableCloseEnd ==
    /\ Closing
    /\ tpc \notin {"handling", "final"}
    /\ lifecycle' = Transport_aexit(lifecycle)
    /\ UNCHANGED <<callvars, rvars, stdout, stdio, core, latch>>

\* A StreamableFinish that answers with the result whether or not streaming
\* has started.
StreamableFinish_ignores_stream(t) ==
    /\ tpc = "handling"
    /\ pc[t] = "done"
    /\ response' = streamable_result(out[t], msg[t])
    /\ tpc' = "closed"
    /\ UNCHANGED <<pc, msg, scope, hasSend, borrowers, ctxvar, token, deadline,
                   now, rvars, xvars, seen, sent, out, hist, headers, httpreq, started_with_stream,
                   received, recvOpen, sending,
                   progressAt, calledAt, reported, asked, actstack>>

\* A _handle_request that closes the send stream only after it has sent a
\* result on it: a streaming request whose result is no message stays open.
StreamableFinish_closes_after_result_only(t) ==
    /\ tpc = "handling"
    /\ pc[t] = "done"
    /\ LET result == streamable_result(out[t], msg[t])
           cancelled == out[t].kind = "raised" /\ ~IsException(out[t].exc)
       IN IF cancelled
             THEN /\ tpc' = "closed"
                  /\ UNCHANGED <<response, sending>>
          ELSE IF started_with_stream
             THEN /\ response' = response
                  /\ result.content = "frame"
                  /\ IF recvOpen
                        THEN /\ tpc' = "final"
                             /\ sending' = StreamItem("frame", 0, result.body)
                        ELSE /\ tpc' = "closed"
                             /\ sending' = sending
          ELSE /\ response' = result
               /\ tpc' = "closed"
               /\ sending' = sending
    /\ UNCHANGED <<pc, msg, scope, hasSend, borrowers, ctxvar, token, deadline,
                   now, rvars, xvars, seen, sent, out, hist, headers, httpreq, started_with_stream,
                   received, recvOpen,
                   progressAt, calledAt, reported, asked, actstack>>

\* handle() is over in _handle_request: the result is built; once streaming
\* has started a result that is a message is sent on the stream, otherwise
\* the result is the response. A cancellation ends the task with neither.
StreamableFinish(t) ==
    /\ tpc = "handling"
    /\ pc[t] = "done"
    /\ LET result == streamable_result(out[t], msg[t])
           cancelled == out[t].kind = "raised" /\ ~IsException(out[t].exc)
       IN IF cancelled
             THEN /\ tpc' = "closed"
                  /\ UNCHANGED <<response, sending>>
          ELSE IF started_with_stream
             THEN /\ response' = response
                  /\ IF result.content = "frame" /\ recvOpen
                        THEN /\ tpc' = "final"
                             /\ sending' = StreamItem("frame", 0, result.body)
                        ELSE /\ tpc' = "closed"
                             /\ sending' = sending
          ELSE /\ response' = result
               /\ tpc' = "closed"
               /\ sending' = sending
    /\ UNCHANGED <<pc, msg, scope, hasSend, borrowers, ctxvar, token, deadline,
                   now, rvars, xvars, seen, sent, out, hist, headers, httpreq, started_with_stream,
                   received, recvOpen,
                   progressAt, calledAt, reported, asked, actstack>>

\* handle() raises an exception other than InvalidMessageError to the
\* transport that awaits it.
UnexpectedFailure(t) ==
    /\ tpc = "handling"
    /\ pc[t] \in {"acquiring", "running", "sending"}
    /\ hist' = [hist EXCEPT ![t] = History("failed", NoError, pc[t])]
    /\ LeaveLimiter(t, BodyFault("Exception"))
    /\ UNCHANGED <<msg, scope, hasSend, token, now, rvars, xvars, seen, sent>>

\* One task, every message.
Next ==
    \/ \E m \in Messages, sc \in Scopes \cup {"None"}, snd \in BOOLEAN :
          HandleCall(1, m, sc, snd)
    \/ Enter(1)
    \/ HandlerGetContext(1)
    \/ HandlerSend(1)
    \/ HandlerReportProgress(1)
    \/ HandlerReturn(1)
    \/ \E e \in HandlerErrors : HandlerRaise(1, e)
    \/ IdleDeadline(1)
    \/ CancelTask(1)
    \/ Tick

Spec == Init /\ [][Next]_vars

\* Concurrent handle() calls on one MiniMCP instance: task t calls handle()
\* once, with a request of its own id or a notification, under its own scope
\* and with a send callback; both messages reach a user handler.
ConcMessages(t) ==
    {RawMessage("object", "2.0", <<"id", t>>, "tools/call", "params"),
     RawMessage("object", "2.0", AbsentId, "notifications/progress", "params")}
ConcScope(t) == IF t % 2 = 1 THEN "scopeA" ELSE "scopeB"

NextConc ==
    \/ \E t \in Tasks : \E m \in ConcMessages(t) :
          HandleCall(t, m, ConcScope(t), TRUE)
    \/ \E t \in Tasks : Enter(t)
    \/ \E t \in Tasks : HandlerGetContext(t)
    \/ \E t \in Tasks : HandlerSend(t)
    \/ \E t \in Tasks : HandlerReturn(t)
    \/ \E t \in Tasks : HandlerRaise(t, HandlerError("ZeroDivisionError", "divide by zero"))
    \/ \E t \in Tasks : IdleDeadline(t)
    \/ \E t \in Tasks : CancelTask(t)
    \/ Tick

SpecConc == Init /\ [][NextConc]_vars

\* The concurrent calls under fair scheduling.  CapacityLimiter.release hands
\* a freed token to the longest-waiting task, so a call blocked in
\* `async with self._capacity_limiter` that finds a token free again and
\* again gets one: strong fairness of Enter.  Nothing obliges a handler to
\* return, a deadline to be reached or a caller to cancel.
NextFair ==
    \/ \E t \in Tasks : \E m \in ConcMessages(t) :
          HandleCall(t, m, ConcScope(t), TRUE)
    \/ \E t \in Tasks : Enter(t)
    \/ \E t \in Tasks : HandlerReturn(t)
    \/ \E t \in Tasks : IdleDeadline(t)
    \/ \E t \in Tasks : CancelTask(t)
    \/ Tick

SpecFair == Init /\ [][NextFair]_vars /\ \A t \in Tasks : SF_vars(Enter(t))

\* The task of _handle_request is cancelled while it is blocked sending the
\* result on the stream.
CancelFinalSend ==
    /\ tpc = "final"
    /\ tpc' = "cancelled"
    /\ sending' = NoItem
    /\ UNCHANGED <<pc, msg, scope, hasSend, borrowers, ctxvar, token, deadline,
                   now, rvars, xvars, seen, sent, out, hist, headers, httpreq, started_with_stream,
                   response, received, recvOpen,
                   progressAt, calledAt, reported, asked, actstack>>

\* One POST to a started StreamableHTTPTransport.
AcceptHeaders == {{MEDIA_TYPE_JSON, MEDIA_TYPE_SSE}, {MEDIA_TYPE_JSON}, {}}
PostHeaders ==
    {Headers(a, c, v) : a \in AcceptHeaders, c \in {MEDIA_TYPE_JSON, "text/plain"},
                        v \in {"supported", "unsupported", "absent"}}
PostBodies ==
    InvalidJSONMessages \cup NonObjectMessages
      \cup {RawMessage("object", "2.0", <<"id", 1>>, m, "params") :
               m \in {"initialize", "tools/call", "unknown_method"}}
      \cup {RawMessage("object", "2.0", AbsentId, "notifications/progress", "params")}

NextStream ==
    \/ StreamableStart
    \/ \E h \in PostHeaders, m \in PostBodies : StreamablePost(1, h, m, "scopeA")
    \/ Enter(1)
    \/ StreamSend(1)
    \/ ConsumerReceive
    \/ ConsumerClose
    \/ HandlerReturn(1)
    \/ \E e \in HandlerErrors : HandlerRaise(1, e)
    \/ IdleDeadline(1)
    \/ CancelTask(1)
    \/ UnexpectedFailure(1)
    \/ StreamableFinish(1)
    \/ CancelFinalSend
    \/ Tick

SpecStream == Init /\ [][NextStream]_vars

\* The same POST under fair scheduling: the task of _handle_request, ready
\* once handle() is over, is run; and the consumer of the response keeps
\* reading while it has not gone away.  Nothing obliges the handler to
\* finish or the consumer to stay.
SpecStreamFair ==
    /\ Init /\ [][NextStream]_vars
    /\ WF_vars(StreamableFinish(1))
    /\ WF_vars(ConsumerReceive)

\* A started transport is closed while the POST it serves is in any state;
\* the consumer of a streamed response reads or not, as it likes.  Fairness:
\* a call blocked on the limiter is admitted (the only call in flight), a
\* handler that is not blocked in send ends, by itself or through its idle
\* deadline, the task of _handle_request runs on once handle() is over, and
\* so does the task that closes the transport.
HandlerEnds(t) == HandlerReturn(t) \/ (\E e \in HandlerErrors : HandlerRaise(t, e)) \/ IdleDeadline(t)
NextClose ==
    \/ StreamableStart
    \/ \E h \in PostHeaders, m \in PostBodies : StreamablePost(1, h, m, "scopeA")
    \/ Enter(1)
    \/ StreamSend(1)
    \/ ConsumerReceive
    \/ HandlerReturn(1)
    \/ \E e \in HandlerErrors : HandlerRaise(1, e)
    \/ IdleDeadline(1)
    \/ StreamableFinish(1)
    \/ StreamableClose
    \/ StreamableCloseStreams
    \/ StreamableCloseEnd
    \/ Tick

SpecClose ==
    /\ Init /\ [][NextClose]_vars
    /\ WF_vars(Enter(1))
    /\ WF_vars(HandlerEnds(1))
    /\ WF_vars(StreamableFinish(1))
    /\ WF_vars(StreamableCloseEnd)

\* A handler that reports progress, for a request and for a notification, each
\* with and without a progressToken in params._meta.
ProgressMessages ==
    {RawMessage("object", "2.0", i, m, part) :
        i \in {<<"id", 1>>}, m \in {"tools/call"}, part \in {"params", "params+progressToken"}}
      \cup {RawMessage("object", "2.0", AbsentId, "notifications/progress", part) :
               part \in {"params", "params+progressToken"}}
NextProgress ==
    \/ \E m \in ProgressMessages : HandleCall(1, m, "None", TRUE)
    \/ Enter(1)
    \/ HandlerSend(1)
    \/ HandlerReportProgress(1)
    \/ HandlerReturn(1)
    \/ IdleDeadline(1)
    \/ Tick

SpecProgress == Init /\ [][NextProgress]_vars

\* Two MiniMCP instances in one process: messages are handled by the first,
\* and their handlers ask either instance for its context.
NextServers ==
    \/ \E m \in Messages, sc \in Scopes \cup {"None"}, snd \in BOOLEAN :
          HandleCall(1, m, sc, snd)
    \/ Enter(1)
    \/ \E s \in Servers : HandlerGetContextOf(1, s)
    \/ HandlerReturn(1)
    \/ \E e \in HandlerErrors : HandlerRaise(1, e)

SpecServers == Init /\ [][NextServers]_vars

\* One request to the plain HTTP transport, with any method.
HTTPMethods == {"POST", "GET", "DELETE"}
NextHTTP ==
    \/ \E method \in HTTPMethods, h \in PostHeaders, m \in PostBodies :
          Dispatch(1, method, h, m, "scopeA")
    \/ Enter(1)
    \/ HandlerReturn(1)
    \/ \E e \in HandlerErrors : HandlerRaise(1, e)
    \/ IdleDeadline(1)
    \/ CancelTask(1)
    \/ HTTPFinish(1)
    \/ Tick

SpecHTTP == Init /\ [][NextHTTP]_vars

\* One request to either HTTP transport: the plain one calls handle() without
\* a send callback, the streamable one with send_callback.
NextTransports ==
    \/ \E method \in HTTPMethods, h \in PostHeaders, m \in PostBodies :
          Dispatch(1, method, h, m, "scopeA")
    \/ StreamableStart
    \/ \E h \in PostHeaders, m \in PostBodies : StreamablePost(1, h, m, "scopeA")
    \/ Enter(1)
    \/ StreamSend(1)
    \/ ConsumerReceive
    \/ ConsumerClose
    \/ HandlerReturn(1)
    \/ \E e \in HandlerErrors : HandlerRaise(1, e)
    \/ IdleDeadline(1)
    \/ CancelTask(1)
    \/ UnexpectedFailure(1)
    \/ (~hasSend[1] /\ HTTPFinish(1))
    \/ (hasSend[1] /\ StreamableFinish(1))
    \/ CancelFinalSend
    \/ Tick

SpecTransports == Init /\ [][NextTransports]_vars

(* ------------------------ stdio transport: actions -------------------- *)
\* A transport that awaits the handler of a line before it reads the next.
StdioReadLine_awaits_handler(i, line) ==
    /\ stdio.state = "running"
    /\ i = stdio.read.n + 1
    /\ stdio.tasks[i].pc = "none"
    /\ \A j \in StdioTasks : stdio.tasks[j].pc # "handler"
    /\ stdio' = [stdio EXCEPT
                    !.tasks[i] = StdioTask(IF strip(line) = <<>> THEN "skipped" ELSE "handler",
                                           NoOutcome),
                    !.read = ReadCall(i, line)]
    /\ UNCHANGED <<callvars, rvars, stdout, lifecycle, core, latch>>

\* transport(): line i, the next one, is read from stdin; a line that is not
\* empty once stripped starts a _handle_message task in the task group, and
\* the loop goes on without awaiting it.
StdioReadLine(i, line) ==
    /\ stdio.state = "running"
    /\ i = stdio.read.n + 1
    /\ stdio.tasks[i].pc = "none"
    /\ stdio' = [stdio EXCEPT
                    !.tasks[i] = StdioTask(IF strip(line) = <<>> THEN "skipped" ELSE "handler",
                                           NoOutcome),
                    !.read = ReadCall(i, line)]
    /\ UNCHANGED <<callvars, rvars, stdout, lifecycle, core, latch>>

\* The handler of task i calls the send function it was given, write_msg; a
\* ValueError is raised into the handler.
StdioHandlerSend(i, value) ==
    /\ stdio.state \in {"running", "eof"}
    /\ stdio.tasks[i].pc = "handler"
    /\ stdio.last.n < MaxWrites
    /\ stdout' = write_msg(stdout, value).stdout
    /\ stdio' = [stdio EXCEPT !.last = WriteCall(stdio.last.n + 1, value,
                                                  write_msg(stdout, value).raised)]
    /\ UNCHANGED <<callvars, rvars, lifecycle, core, latch>>

\* The exit of the task group once an exception has left one of its tasks:
\* the tasks still running are cancelled.
cancel_siblings(tasks, i) ==
    [j \in StdioTasks |->
        IF j = i THEN tasks[j]
        ELSE IF tasks[j].pc = "handler" THEN StdioTask("cancelled", tasks[j].outcome)
        ELSE tasks[j]]

\* The handler of task i ends with outcome: _handle_message takes the value
\* returned, the response of an InvalidMessageError or the frame it builds
\* for another exception, and writes it with write_msg. A ValueError of that
\* write leaves the task, cancels the task group and ends transport().
StdioHandlerEnds(i, outcome) ==
    /\ stdio.state \in {"running", "eof"}
    /\ stdio.tasks[i].pc = "handler"
    /\ stdio.last.n < MaxWrites
    /\ LET value == handle_message_response(outcome)
           w == write_msg(stdout, value)
           ended == [stdio.tasks EXCEPT
                        ![i] = StdioTask(IF w.raised THEN "failed" ELSE "done", outcome)]
       IN /\ stdout' = w.stdout
          /\ stdio' = [state |-> IF w.raised THEN "terminated" ELSE stdio.state,
                       tasks |-> IF w.raised THEN cancel_siblings(ended, i) ELSE ended,
                       last |-> WriteCall(stdio.last.n + 1, value, w.raised),
                       read |-> stdio.read]
    /\ UNCHANGED <<callvars, rvars, lifecycle, core, latch>>

\* stdin is at its end: no further line is read.
StdioEOF ==
    /\ stdio.state = "running"
    /\ stdio' = [stdio EXCEPT !.state = "eof"]
    /\ UNCHANGED <<callvars, rvars, stdout, lifecycle, core, latch>>

\* The stdio transport with any handler.
NextStdio ==
    \/ \E i \in StdioTasks, line \in InputLines : StdioReadLine(i, line)
    \/ \E i \in StdioTasks, r \in StdioResponses : StdioHandlerSend(i, r)
    \/ \E i \in StdioTasks, o \in StdioOutcomes : StdioHandlerEnds(i, o)
    \/ StdioEOF

SpecStdio == Init /\ [][NextStdio]_vars

\* handle() dispatches a tools/list request: the list_tools handler runs.
CoreListTools ==
    /\ core.dispatched < MaxDispatched
    /\ core' = Core(tool_cache_refresh(tools), core.dispatched + 1, NoName)
    /\ UNCHANGED <<callvars, rvars, stdout, stdio, lifecycle, latch>>

\* handle() dispatches a tools/call request for the tool `name`: the
\* call_tool handler looks the definition up, calls ToolManager.call, which
\* raises ValueError for a tool that is not registered and otherwise gives
\* what the tool function gives, and builds the result.
CoreCallToolByName(name, results) ==
    /\ core.dispatched < MaxDispatched
    /\ LET found == get_cached_tool_definition(core.tool_cache, tools, name)
           given == IF name \in dict_keys(tools) THEN results
                    ELSE ToolResults("raise", "None")
       IN /\ core' = Core(found.tool_cache, core.dispatched + 1, name)
          /\ toolcall' = ToolCall(TRUE, found.tool, given,
                                  call_tool_output(found.tool, given))
    /\ UNCHANGED <<callvars, tools, prompts, resources, regop, stdout, stdio, lifecycle,
                   latch>>

\* The application registers and removes tools between the messages it has
\* the server handle.
CacheNames == {<<"name", 1>>}
CacheTools == {ToolDef(TRUE, TRUE, {"{result: 8}"}), ToolDef(TRUE, TRUE, {"{result: 'x'}"})}
CacheResults == {ToolResults("dict", "{result: 8}"), ToolResults("dict", "{result: 'x'}"),
                 ToolResults("raise", "None")}
NextCache ==
    \/ \E n \in CacheNames, tool \in CacheTools : ToolAdd(n, tool)
    \/ \E n \in CacheNames : ToolRemove(n)
    \/ CoreListTools
    \/ \E n \in CacheNames, r \in CacheResults : CoreCallToolByName(n, r)

SpecCache == Init /\ [][NextCache]_vars

\* The tail of _handle_request: once streaming has started the result goes
\* on the stream, otherwise it is passed to task_status.started.
handle_request_tail(l) ==
    IF l.flag THEN l ELSE task_status_started(l, "result")

\* _handle_request starts for a POST; when the headers fail validation the
\* result is ready at once.
RequestStart(valid) ==
    /\ latch.request = "none"
    /\ latch' = IF valid THEN [latch EXCEPT !.request = "running"]
                ELSE [handle_request_tail(latch) EXCEPT !.request = "finished"]
    /\ UNCHANGED <<callvars, rvars, stdout, stdio, lifecycle, core>>

\* A task of the handler calls send_callback.
SendCallback_call(s) ==
    /\ latch.request = "running"
    /\ latch.pcs[s] = "idle"
    /\ latch.sends < MaxLatchSends
    /\ latch' = [latch EXCEPT !.pcs[s] = "check", !.sends = @ + 1]
    /\ UNCHANGED <<callvars, rvars, stdout, stdio, lifecycle, core>>

\* The fast path: `if not started_with_stream:` outside the lock.
SendCallback_fast_path(s) ==
    /\ latch.request = "running"
    /\ latch.pcs[s] = "check"
    /\ latch' = [latch EXCEPT !.pcs[s] = IF latch.flag THEN "send" ELSE "lock"]
    /\ UNCHANGED <<callvars, rvars, stdout, stdio, lifecycle, core>>

\* `async with first_init_lock:` the lock is acquired when it is free.
SendCallback_acquire(s) ==
    /\ latch.request = "running"
    /\ latch.pcs[s] = "lock"
    /\ latch.lock = 0
    /\ latch' = [latch EXCEPT !.pcs[s] = "locked", !.lock = s]
    /\ UNCHANGED <<callvars, rvars, stdout, stdio, lifecycle, core>>

\* Under the lock: the flag is tested again, set, and task_status.started is
\* called with the stream response; the lock is released.
SendCallback_first_init(s) ==
    /\ latch.request = "running"
    /\ latch.pcs[s] = "locked"
    /\ LET l == IF first_init(latch)
                   THEN [task_status_started(latch, "stream") EXCEPT !.flag = TRUE]
                   ELSE [latch EXCEPT !.contended = TRUE]
       IN latch' = [l EXCEPT !.pcs[s] = "send", !.lock = 0]
    /\ UNCHANGED <<callvars, rvars, stdout, stdio, lifecycle, core>>

\* `await send_stream.send(value)` is over, delivered or dropped.
SendCallback_send(s) ==
    /\ latch.request = "running"
    /\ latch.pcs[s] = "send"
    /\ latch' = [latch EXCEPT !.pcs[s] = "idle"]
    /\ UNCHANGED <<callvars, rvars, stdout, stdio, lifecycle, core>>

\* handle() is over: the handler has returned or raised with its sends
\* completed, or (cut) the idle timeout has cancelled it together with the
\* sends in progress, which release the lock as they unwind.
RequestFinish(cut) ==
    /\ latch.request = "running"
    /\ cut \/ \A s \in Senders : latch.pcs[s] = "idle"
    /\ latch' = [handle_request_tail(latch) EXCEPT
                    !.request = "finished", !.lock = 0,
                    !.pcs = [s \in Senders |-> "idle"]]
    /\ UNCHANGED <<callvars, rvars, stdout, stdio, lifecycle, core>>

\* The task of _handle_request is cancelled by the enclosing task group: the
\* cancellation passes through every handler of the task.
RequestCancel ==
    /\ latch.request = "running"
    /\ latch' = [latch EXCEPT !.request = "cancelled", !.lock = 0,
                              !.pcs = [s \in Senders |-> "idle"]]
    /\ UNCHANGED <<callvars, rvars, stdout, stdio, lifecycle, core>>

\* One POST whose handler calls send from several tasks.
NextLatch ==
    \/ \E valid \in BOOLEAN : RequestStart(valid)
    \/ \E s \in Senders : SendCallback_call(s)
    \/ \E s \in Senders : SendCallback_fast_path(s)
    \/ \E s \in Senders : SendCallback_acquire(s)
    \/ \E s \in Senders : SendCallback_first_init(s)
    \/ \E s \in Senders : SendCallback_send(s)
    \/ \E cut \in BOOLEAN : RequestFinish(cut)
    \/ RequestCancel

SpecLatch == Init /\ [][NextLatch]_vars

\* A StreamableHTTPTransport that is started and closed, and one POST to it.
NextLifecycle ==
    \/ StreamableStart
    \/ StreamableClose
    \/ StreamablePost_not_started
    \/ \E h \in PostHeaders, m \in PostBodies : StreamablePost(1, h, m, "scopeA")
    \/ Enter(1)
    \/ StreamSend(1)
    \/ ConsumerReceive
    \/ HandlerReturn(1)
    \/ \E e \in HandlerErrors : HandlerRaise(1, e)
    \/ StreamableFinish(1)

SpecLifecycle == Init /\ [][NextLifecycle]_vars

\* One request to the older plain transport, HTTPTransport of transports/http.py.
NextHTTPTransport ==
    \/ \E method \in HTTPMethods, h \in PostHeaders, m \in PostBodies :
          HTTPTransport_dispatch(1, method, h, m)
    \/ Enter(1)
    \/ HandlerReturn(1)
    \/ \E e \in HandlerErrors : HandlerRaise(1, e)
    \/ IdleDeadline(1)
    \/ CancelTask(1)
    \/ HTTPTransport_finish(1)
    \/ Tick

SpecHTTPTransport == Init /\ [][NextHTTPTransport]_vars

\* The application registers and removes tools, prompts and resources.
NextRegistry ==
    \/ \E n \in FuncNames : ToolAdd(n, ToolDef(TRUE, FALSE, {}))
    \/ \E n \in FuncNames : ToolRemove(n)
    \/ \E n \in FuncNames : PromptAdd(n)
    \/ \E n \in FuncNames : PromptRemove(n)
    \/ \E n \in FuncNames, u \in ResourceURIs, ps \in FuncParams : ResourceAdd(n, u, ps)
    \/ \E n \in FuncNames : ResourceRemove(n)

SpecRegistry == Init /\ [][NextRegistry]_vars

\* A handler that uses ContextManager.active itself while it handles a
\* tools/call request.
NestedContexts == {Context(NullMessage, sc, 0) : sc \in Scopes}
NextContext ==
    \/ \E sc \in Scopes \cup {"None"}, snd \in BOOLEAN :
          HandleCall(1, RawMessage("object", "2.0", <<"id", 1>>, "tools/call", "params"), sc, snd)
    \/ Enter(1)
    \/ HandlerGetContext(1)
    \/ \E c \in NestedContexts : ContextActive(1, c)
    \/ ContextActiveExit(1)
    \/ HandlerReturn(1)
    \/ IdleDeadline(1)
    \/ Tick

SpecContext == Init /\ [][NextContext]_vars

\* Resources are registered and removed, and a client reads a URI.
NextResources ==
    \/ \E n \in FuncNames, u \in ResourceURIs, ps \in FuncParams : ResourceAdd(n, u, ps)
    \/ \E n \in FuncNames : ResourceRemove(n)
    \/ \E m \in ReadResourceMessages : HandleCall(1, m, "None", FALSE)
    \/ Enter(1)
    \/ HandlerReturn(1)
    \/ \E e \in HandlerErrors : HandlerRaise(1, e)

SpecResources == Init /\ [][NextResources]_vars

\* Static resources and templates that match the same URIs are registered
\* and removed in every order, and URIs are read.
OverlappingURIs ==
    {<<"users", "{id}">>, <<"{uid}", "42">>, <<"users", "42">>, <<"users", "all">>}
NextRead ==
    \/ \E n \in FuncNames, u \in OverlappingURIs, ps \in FuncParams : ResourceAdd(n, u, ps)
    \/ \E n \in FuncNames : ResourceRemove(n)
    \/ \E u \in ReadURIs : ResourceRead(u)

SpecRead == Init /\ [][NextRead]_vars

\* tools/call reaches the core's handler with every tool definition and
\* every kind of output of the tool function.
NextCallTool == \E tool \in ToolDefs, results \in AllToolResults : CoreCallTool(tool, results)

SpecCallTool == Init /\ [][NextCallTool]_vars

(* ------------------------------- claims ------------------------------- *)
\* The call of task t is over.
Done(t) == pc[t] = "done"

\* The message of task t parsed as a JSON-RPC request.
IsRequest(t) == parse_message(msg[t]).ok /\ RootKind(msg[t]) = "request"

\* The message of task t parsed as a JSON-RPC notification.
IsNotification(t) == parse_message(msg[t]).ok /\ RootKind(msg[t]) = "notification"

\* C1: for every message that parses as a JSON-RPC request with id I, the
\* frame handle() returns, a result frame or an error frame, carries id I.
C1_ResponseCarriesRequestId ==
    \A t \in Tasks :
        (Done(t) /\ IsRequest(t) /\ out[t].kind = "frame")
            => /\ out[t].frame.type \in {"result", "error"}
               /\ out[t].frame.id = msg[t].id

\* C1 witness: the request with id 2 reached its handler, which returned,
\* and was answered by a result frame.
C1_Witness ==
    /\ Done(1) /\ IsRequest(1)
    /\ msg[1].id = <<"id", 2>>
    /\ out[1].kind = "frame"
    /\ out[1].frame.type = "result"
    /\ hist[1].ev = "returned"

C3_TimeoutYieldsInternalError ==
    \A t \in Tasks :
        (Done(t) /\ hist[t].ev = "timeout")
            => /\ out[t].kind = "frame"
               /\ out[t].frame.type = "error"
               /\ out[t].frame.code = "INTERNAL_ERROR"

\* C4: in every interleaving of concurrent handle() calls, the number of
\* calls that acquired the limiter and have not left it never exceeds
\* max_concurrency.
C4_LimiterBound == Cardinality(borrowers) <= MaxConcurrency

\* C4 witness: the limiter is full, its holders are in flight, and another
\* call is blocked waiting for a token.
C4_Witness ==
    /\ Cardinality(borrowers) = MaxConcurrency
    /\ \A t \in borrowers : pc[t] = "running"
    /\ \E t \in Tasks : pc[t] = "acquiring"

\* The context the call of task t built for its handler.
OwnContext(t) == Context(msg[t], scope[t], IF hasSend[t] THEN t ELSE 0)

\* C5: in every interleaving of concurrent handle() calls, context.get(),
\* get_scope() and get_responder() inside a handler return the message,
\* scope and responder of that handler's own call.
C5_ContextIsOwn ==
    \A t \in Tasks :
        /\ pc[t] = "running" => ContextManager_get(ctxvar, t) = OwnContext(t)
        /\ seen[t].active =>
              /\ seen[t].message = msg[t]
              /\ seen[t].scope = scope[t]
              /\ seen[t].responder = (IF hasSend[t] THEN t ELSE 0)

\* C5 witness: two handlers in flight at once, with different messages,
\* scopes and responders, have both read the context.
C5_Witness ==
    \E t, u \in Tasks :
        /\ t # u
        /\ pc[t] = "running" /\ pc[u] = "running"
        /\ seen[t].active /\ seen[u].active
        /\ msg[t] # msg[u] /\ scope[t] # scope[u]
        /\ hasSend[t] /\ hasSend[u]

\* C8 (as claimed): for every notification passed to handle(), with a
\* registered handler, with none, with a raising handler or with a method the
\* server does not recognise, handle() returns NoMessage.NOTIFICATION and
\* produces no frame (a call cancelled from outside returns nothing).
C8_NotificationReturnsNoMessage ==
    \A t \in Tasks :
        (Done(t) /\ IsNotification(t) /\ hist[t].ev # "cancelled")
            => out[t] = ReturnedNoMessage

\* A request of task t whose method the server does not recognise was
\* answered (the call was not cancelled from outside).
UnknownMethodAnswered(t) ==
    /\ Done(t) /\ IsRequest(t)
    /\ msg[t].method \in UnknownRequestMethods
    /\ hist[t].ev # "cancelled"

\* C9 (as claimed): a well-formed request whose method the server does not
\* recognise is answered with an error frame whose code is METHOD_NOT_FOUND.
C9_UnknownMethodIsMethodNotFound ==
    \A t \in Tasks :
        UnknownMethodAnswered(t)
            => /\ out[t].kind = "frame"
               /\ out[t].frame.type = "error"
               /\ out[t].frame.code = "METHOD_NOT_FOUND"

\* C9 (amended): a well-formed request whose method the server does not
\* recognise is answered with an error frame carrying the request id whose
\* code is INTERNAL_ERROR; METHOD_NOT_FOUND answers a request whose method is
\* recognised but has no registered handler.
C9_UnknownMethodIsInternalError ==
    \A t \in Tasks :
        /\ UnknownMethodAnswered(t)
              => out[t] = ReturnedFrame(build_error_message("INTERNAL_ERROR", msg[t].id))
        /\ (Done(t) /\ IsRequest(t) /\ msg[t].method \in UnhandledMethods
              /\ hist[t].ev # "cancelled")
              => out[t] = ReturnedFrame(build_error_message("METHOD_NOT_FOUND", msg[t].id))

\* C9 witness: the request {"id": 1, "method": "unknown_method"} was answered.
C9_Witness ==
    /\ UnknownMethodAnswered(1)
    /\ msg[1].id = <<"id", 1>>
    /\ out[1].kind = "frame"

\* C10: when the task running handle() is cancelled from outside, handle()
\* re-raises the cancellation and returns no result or error frame.
C10_CancellationReraised ==
    \A t \in Tasks :
        hist[t].ev = "cancelled"
            => /\ Done(t)
               /\ out[t] = Raised("Cancelled", NullFrame)

\* C10 witness: a request was cancelled while its handler was in flight.
C10_Witness ==
    /\ hist[1].ev = "cancelled"
    /\ IsRequest(1)
    /\ 1 \notin borrowers
    /\ seen[1].active
    /\ Done(1)

\* The stream of the POST has ended normally.
StreamEnded == tpc = "closed"

\* handle() of task t ended by re-raising a cancellation.
HandleCancelled(t) == out[t].kind = "raised" /\ ~IsException(out[t].exc)

\* The items the handler of task t passed to send, in the order of its calls.
SentItems(t) ==
    [i \in 1..Len(sent[t]) |-> StreamItem("notification", sent[t][i], NullFrame)]

\* The message the transport sends last: the frame handle() of task t
\* returned, or the error frame for the exception it raised.
FinalItems(t) ==
    IF Done(t) /\ ~HandleCancelled(t) /\ streamable_result(out[t], msg[t]).content = "frame"
        THEN <<StreamItem("frame", 0, streamable_result(out[t], msg[t]).body)>>
        ELSE <<>>

IsPrefix(a, b) == Len(a) <= Len(b) /\ \A i \in 1..Len(a) : a[i] = b[i]

\* C6 (as claimed): a streamable-HTTP POST whose handler calls send at least
\* once is answered by an SSE stream (200 with the SSE headers) that delivers
\* every message passed to send in the order of the calls, then the returned
\* message if there is one, and no other message (calls cancelled from
\* outside or ended by an exception escaping handle() left aside).
C6_StreamDeliversEverySend ==
    (started_with_stream /\ StreamEnded /\ hist[1].ev \in {"returned", "raised", "timeout"})
        => /\ response = SSEResponse
           /\ received = SentItems(1) \o FinalItems(1)

\* The notifications, and the frames, the client received.
IsNotificationItem(x) == x.kind = "notification"
IsFrameItem(x) == x.kind = "frame"
ReceivedNotifications == SelectSeq(received, IsNotificationItem)
ReceivedFrames == SelectSeq(received, IsFrameItem)

\* C6 (amended): such a POST is answered by an SSE stream (200 with the SSE
\* headers) that delivers, in the order of the calls, the messages whose send
\* completed, followed by the message handle() returned (or the transport's
\* error frame for an exception it raised), and no other message. A send made
\* after the client went away is dropped, as is every later message, and only
\* the send in progress can be cut short by the idle deadline, a cancellation
\* or an exception; when neither happens and the client reads to the end,
\* every message passed to send is delivered.
C6_StreamDeliversCompletedSends ==
    /\ started_with_stream =>
          /\ response = SSEResponse
          /\ received = ReceivedNotifications \o ReceivedFrames
          /\ IsPrefix(ReceivedNotifications, SentItems(1))
          /\ IsPrefix(ReceivedFrames, FinalItems(1))
          /\ (StreamEnded /\ recvOpen /\ hist[1].at # "sending")
                => received = SentItems(1) \o FinalItems(1)
    /\ ~started_with_stream => received = <<>>

\* C6 witness: the handler sent two notifications and returned; the client
\* received both, then the result frame, and the stream ended.
C6_Witness ==
    /\ StreamEnded /\ recvOpen
    /\ Len(sent[1]) = MaxStreamSends
    /\ hist[1].ev = "returned"
    /\ Len(received) = MaxStreamSends + 1
    /\ received[Len(received)].kind = "frame"

\* C7 (as claimed): a POST whose handler never calls send gets from
\* StreamableHTTPTransport the status code, media type and body the plain HTTP
\* transport returns for the same headers, body and handle() outcome.
C7_StreamableMatchesPlain ==
    (StreamEnded /\ ~started_with_stream /\ Done(1) /\ ~HandleCancelled(1))
        => response = BaseHTTP_handle_post_request(headers, msg[1], out[1])

\* C11: every send_notification call, and every report_progress call made
\* with a progress token, has set the idle deadline of its message to the
\* current time plus idle_timeout when send is invoked; and the idle timeout
\* cancels a handler only when idle_timeout has passed since its call entered
\* the limiter or last made such a call.
SendInvoked(t) == Len(sent'[t]) > Len(sent[t])
IdleTimeoutFires(t) == hist'[t].ev = "timeout" /\ hist[t].ev # "timeout"
C11_ProgressResetsIdleDeadline ==
    [][\A t \in Tasks :
          /\ SendInvoked(t) => deadline'[t] = now + IdleTimeout
          /\ IdleTimeoutFires(t) => now >= progressAt[t] + IdleTimeout]_vars
\* A handler that reported progress with a token after time had passed is
\* still running.
C11_Witness ==
    /\ pc[1] = "running"
    /\ get_progress_token(msg[1]) # "None"
    /\ Len(sent[1]) = 1
    /\ progressAt[1] = MaxTime
    /\ now = MaxTime

\* C12: a handle() call that arrives while max_concurrency calls are in
\* flight is neither rejected nor dropped: while it waits for the limiter it
\* has no outcome, and if a token is free again and again it is admitted,
\* unless its own caller cancels it first.
Blocked(t) == pc[t] = "acquiring" /\ ~CapacityLimiter_available(borrowers)
C12_BlockedCallIsAdmitted ==
    \A t \in Tasks :
        /\ [](pc[t] = "acquiring" => out[t] = Pending)
        /\ ([]<>CapacityLimiter_available(borrowers))
              => (Blocked(t) ~> (t \in borrowers \/ hist[t].ev = "cancelled"))
\* A call that was blocked behind a full limiter has been admitted and runs
\* its handler next to a call that was in flight before it.
C12_Witness ==
    /\ pc[3] = "running" /\ 3 \in borrowers
    /\ pc[1] = "done" /\ hist[1].ev = "returned"
    /\ pc[2] = "running"
    /\ now = 0

\* The names a list() result holds, and how often it holds a name.
Occurrences(list, n) == Cardinality({i \in DOMAIN list : list[i] = n})
Listed(list) == {list[i] : i \in DOMAIN list}
\* A registry call was just made on manager mgr.
JustCalled(mgr, op) == regop' # regop /\ regop'.mgr = mgr /\ regop'.op = op

\* C13: for the tool and the prompt registry, after any sequence of add and
\* remove calls every registered name appears exactly once in list(); an add
\* of a name that is registered fails and leaves the registry alone; after
\* remove(N), list() does not contain N.
C13_RegistryNamesUnique ==
    /\ [](/\ \A n \in dict_keys(tools) : Occurrences(ToolManager_list(tools), n) = 1
          /\ \A n \in dict_keys(prompts) : Occurrences(PromptManager_list(prompts), n) = 1
          /\ (regop.mgr = "tool" /\ regop.op = "remove")
                => (regop.name \notin Listed(ToolManager_list(tools)))
          /\ (regop.mgr = "prompt" /\ regop.op = "remove")
                => (regop.name \notin Listed(PromptManager_list(prompts))))
    /\ [][/\ (JustCalled("tool", "add") /\ regop'.name \in Listed(ToolManager_list(tools)))
                 => (~regop'.ok /\ tools' = tools)
          /\ (JustCalled("prompt", "add") /\ regop'.name \in Listed(PromptManager_list(prompts)))
                 => (~regop'.ok /\ prompts' = prompts)]_vars
\* Both registries are full, and the last call was an add of a registered
\* tool name that failed.
C13_Witness ==
    /\ Len(tools) = MaxNames /\ Len(prompts) = MaxNames
    /\ regop.mgr = "tool" /\ regop.op = "add" /\ ~regop.ok
    /\ regop.name \in Listed(ToolManager_list(tools))

\* The normalised form of a URI: every {param} placeholder is one sentinel.
Normalised(uri) == [i \in DOMAIN uri |-> IF uri[i] \in Placeholders THEN "|" ELSE uri[i]]

RegisteredNormalised == {Normalised(resources[i].uri) : i \in DOMAIN resources}

\* C14: no two registered resource entries, static or template, share a
\* normalised URI; an add whose normalised URI is registered fails.
C14_NormalisedURIsUnique ==
    /\ [](\A i, j \in DOMAIN resources :
             Normalised(resources[i].uri) = Normalised(resources[j].uri) => i = j)
    /\ [][(JustCalled("resource", "add") /\ Normalised(regop'.uri) \in RegisteredNormalised)
             => (~regop'.ok /\ resources' = resources)]_vars
\* users/{id} is registered and an add of users/{uid} under another name,
\* with a matching signature, has just failed.
C14_Witness ==
    /\ \E i \in DOMAIN resources : resources[i].uri = <<"users", "{id}">>
    /\ regop.mgr = "resource" /\ regop.op = "add" /\ ~regop.ok
    /\ regop.uri = <<"users", "{uid}">> /\ regop.params = {"uid"}
    /\ regop.name \notin dict_keys(resources)

\* The placeholder names of a URI.
PlaceholderNames(uri) ==
    {ParamName(uri[i]) : i \in {j \in DOMAIN uri : uri[j] \in Placeholders}}

\* C15: the placeholder set of every registered resource template equals
\* the parameter-name set of its handler; an add in which the two differ
\* fails and registers nothing.
C15_TemplateParamsMatch ==
    /\ [](\A i \in DOMAIN resources :
             resources[i].template => PlaceholderNames(resources[i].uri) = resources[i].params)
    /\ [][(JustCalled("resource", "add") /\ PlaceholderNames(regop'.uri) # regop'.params)
             => (~regop'.ok /\ resources' = resources)]_vars
\* An add of users/{id} with a handler taking uid has just failed on an
\* empty registry, where nothing else stood in its way.
C15_Witness ==
    /\ resources = <<>>
    /\ regop.mgr = "resource" /\ regop.op = "add" /\ ~regop.ok
    /\ regop.uri = <<"users", "{id}">> /\ regop.params = {"uid"}
    /\ validate_func_name(regop.name)

\* C16: for every tool that has an outputSchema, tools/call gives
\* isError = false only when the structured content of the tool function
\* validates against that outputSchema; when the structured content is
\* missing or does not validate, the result has isError = true.
HasOutputSchema(tool) == tool.listed /\ tool.hasSchema
StructuredValidates(results, tool) ==
    results.kind \in {"tuple", "dict"} /\ results.structured \in tool.outputSchema
MatchesStatic(uri) ==
    \E i \in DOMAIN resources : ~resources[i].template /\ resources[i].uri = uri
MatchesTemplate(uri) ==
    \E i \in DOMAIN resources :
        /\ resources[i].template
        /\ Len(resources[i].uri) = Len(uri)
        /\ \A k \in DOMAIN uri :
              resources[i].uri[k] \in Placeholders \/ resources[i].uri[k] = uri[k]
\* The resources/read call of task t is answered in this step.
ReadAnswered(t) ==
    /\ msg[t].method = "resources/read"
    /\ pc[t] = "acquiring" /\ pc'[t] = "done" /\ hist'[t].ev = "none"

\* C17 (as claimed): a resources/read request for a URI that matches no
\* static resource and no template is answered with an error frame whose
\* code is RESOURCE_NOT_FOUND.
C17_UnknownResourceIsNotFound ==
    [][\A t \in Tasks :
          (ReadAnswered(t) /\ ~MatchesStatic(msg[t].uri) /\ ~MatchesTemplate(msg[t].uri))
              => (/\ out'[t].kind = "frame"
                  /\ out'[t].frame.type = "error"
                  /\ out'[t].frame.code = "RESOURCE_NOT_FOUND")]_vars

\* C18: ContextManager.get() raises ContextError whenever no handle() call
\* is active in the calling task: before any message was handled, and after
\* handle() has returned or raised, whichever way it ended (result, error
\* frame, InvalidMessageError, timeout, cancellation).
C18_NoContextOutsideHandle ==
    \A t \in Tasks : pc[t] \in {"idle", "done"} => ContextManager_get_raises(ctxvar, t)
\* A handler saw its context and was then cut off by the idle timeout; the
\* call is over.
C18_Witness ==
    /\ Done(1) /\ hist[1].ev = "timeout"
    /\ seen[1] = OwnContext(1)
    /\ out[1] = ReturnedNone

\* C19 (as claimed): a call of ContextManager.active() made while a context
\* is already active in the same task is an error: no active() block is
\* entered inside another.
C19_NestedActiveRejected ==
    [][\A t \in Tasks :
          Len(actstack'[t]) > Len(actstack[t]) => ContextManager_get_raises(ctxvar, t)]_vars

\* The checks of an HTTP request, as the claim lists them.
MethodOK == httpreq.method = "POST"
AcceptOK == MEDIA_TYPE_JSON \in headers.accept
ContentTypeOK == headers.contentType = MEDIA_TYPE_JSON
VersionOK == httpreq.body.method = "initialize" \/ headers.version \in {"supported", "absent"}
Dispatched == httpreq.method # "none"
HandleInvoked == pc[1] # "idle"
Refused(status) == response.status = status /\ ~HandleInvoked /\ tpc = "closed"

\* C20: the checks of an HTTP request run in the order HTTP method, Accept,
\* Content-Type, MCP-Protocol-Version and stop at the first failure: 405 is
\* given in preference to 406, 406 to 415 and 415 to 400; whenever a check
\* fails, handle() is never invoked.
C20_ChecksInOrder ==
    Dispatched =>
        /\ ~MethodOK => Refused("405")
        /\ (MethodOK /\ ~AcceptOK) => Refused("406")
        /\ (MethodOK /\ AcceptOK /\ ~ContentTypeOK) => Refused("415")
        /\ (MethodOK /\ AcceptOK /\ ContentTypeOK /\ ~VersionOK) => Refused("400")
        /\ (MethodOK /\ AcceptOK /\ ContentTypeOK /\ VersionOK) => HandleInvoked
\* A POST that fails the Accept, the Content-Type and the version check was
\* refused with 406.
C20_Witness ==
    /\ Dispatched /\ MethodOK
    /\ ~AcceptOK /\ ~ContentTypeOK /\ ~VersionOK
    /\ Refused("406")

\* The body of the request is a JSON object whose method is "initialize".
IsInitializeBody == httpreq.body.text = "object" /\ httpreq.body.method = "initialize"
\* The request reaches the MCP-Protocol-Version check: it is a POST whose
\* Accept and Content-Type checks passed.
ReachesVersionCheck == Dispatched /\ MethodOK /\ AcceptOK /\ ContentTypeOK

\* C21: the MCP-Protocol-Version check is skipped exactly when the body is a
\* JSON object whose method is "initialize": such a request reaches handle()
\* whatever the header says. For every other body, a body that is not valid
\* JSON or not an object included, a header value outside the supported set
\* never reaches handle() and is answered with 400 by the version check, and
\* a missing header is accepted as the default negotiated version.
C21_VersionCheckSkippedForInitialize ==
    /\ (Dispatched /\ ~IsInitializeBody /\ headers.version = "unsupported")
          => ~HandleInvoked
    /\ ReachesVersionCheck =>
          /\ IsInitializeBody => HandleInvoked
          /\ (~IsInitializeBody /\ headers.version = "unsupported") => Refused("400")
          /\ (~IsInitializeBody /\ headers.version = "absent") => HandleInvoked
\* A POST whose body is not valid JSON, with an unsupported version header,
\* was refused with 400.
C21_Witness ==
    /\ ReachesVersionCheck
    /\ httpreq.body.text = "invalid"
    /\ headers.version = "unsupported"
    /\ Refused("400")

\* The plain HTTP transport has answered a POST that passed header validation
\* and whose call of handle() is over.
Answered == Dispatched /\ HandleInvoked /\ tpc = "closed"

\* C22: for a POST that passes header validation, the HTTP transport answers
\* 200 with media type application/json and the returned frame as body when
\* handle() returned a frame, and 202 with no body when handle() returned
\* NoMessage.
C22_ReturnedValueDecidesStatus ==
    Answered =>
        /\ out[1].kind = "frame" =>
              response = MCPHTTPResponse("200", "frame", out[1].frame, MEDIA_TYPE_JSON, "None")
        /\ out[1].kind = "nomessage" =>
              (response.status = "202" /\ response.content = "None" /\ response.body = NullFrame)
\* A notification was accepted with 202 and no body.
C22_Witness ==
    /\ Answered
    /\ httpreq.body.method = "notifications/progress"
    /\ out[1] = ReturnedNoMessage
    /\ response.status = "202" /\ response.content = "None"

\* The request was given to the streamable transport (which passes
\* send_callback to handle()) or to the plain one.
ViaStreamable == hasSend[1]
\* handle() was called with a message that is not valid JSON and is over.
InvalidJSONHandled == pc[1] = "done" /\ msg[1].text = "invalid"

UnexpectedlyRaised ==
    /\ pc[1] = "done" /\ out[1].kind = "raised"
    /\ out[1].exc # "InvalidMessageError" /\ IsException(out[1].exc)

\* C24 (as claimed): when handle() raises an exception other than
\* InvalidMessageError, the plain and the streamable HTTP transport each
\* answer with status 500 and an error frame with code INTERNAL_ERROR (here
\* for a request whose handler never sent, so that the response is not a
\* stream).
C24_UnexpectedExceptionIs500 ==
    (UnexpectedlyRaised /\ tpc = "closed" /\ ~started_with_stream) =>
        (response.status = "500" /\ response.body.code = "INTERNAL_ERROR")

\* A transport refused the request before handle() was called, with an error
\* frame as body.
RefusedWithFrame == tpc = "closed" /\ ~HandleInvoked /\ response.content = "frame"

\* C25 (as claimed): every error frame built before a message id is known
\* carries the id "no-id": the frame for input that is not JSON, and the
\* frames of HTTP header and protocol-version validation failures.
C25_EarlyErrorFramesCarryNoId ==
    /\ InvalidJSONHandled => out[1].frame.id = NO_ID
    /\ RefusedWithFrame => response.body.id = NO_ID

\* A text with a line feed or a carriage return in it.
Embedded(text) == \E i \in 1..Len(text) : text[i] = LF \/ text[i] = CR
\* A step in which write_msg was called.
WriteMsgCalled == stdio'.last.n = stdio.last.n + 1
\* A complete frame: a text free of line feeds and carriage returns, followed
\* by one line feed.
CompleteFrame(w) ==
    /\ Len(w) >= 1 /\ w[Len(w)] = LF
    /\ \A i \in 1..(Len(w) - 1) : w[i] \notin {LF, CR}

\* C26: the stdio writer only puts complete frames on stdout. A call of
\* write_msg with a message that contains \n or \r raises and writes nothing;
\* a call with any other message makes exactly one write, of the message
\* followed by one \n; a call with NoMessage writes nothing; and nothing else
\* changes stdout.
C26_OnlyCompleteFramesWritten ==
    [][/\ \A k \in 1..Len(stdout') : CompleteFrame(stdout'[k])
       /\ ~WriteMsgCalled => stdout' = stdout
       /\ WriteMsgCalled =>
             LET value == stdio'.last.response
             IN /\ (value.kind = "Message" /\ Embedded(value.text))
                      => (stdio'.last.raised /\ stdout' = stdout)
                /\ (value.kind = "Message" /\ ~Embedded(value.text))
                      => (/\ ~stdio'.last.raised
                          /\ stdout' = Append(stdout, value.text \o <<LF>>))
                /\ value.kind = "NoMessage"
                      => (~stdio'.last.raised /\ stdout' = stdout)]_vars
\* A message was written, and a later message with a carriage return in it
\* was rejected without a write.
C26_Witness ==
    /\ Len(stdout) = 1
    /\ stdio.last.n = 2 /\ stdio.last.raised
    /\ stdio.last.response.kind = "Message"
    /\ \E i \in 1..Len(stdio.last.response.text) : stdio.last.response.text[i] = CR

\* The handler of task i ended by raising an exception other than
\* InvalidMessageError.
HandlerRaisedException(i) == stdio.tasks[i].outcome.kind = "Exception"

\* C27 (as claimed): an exception that escapes the handler given to the stdio
\* transport propagates out of its task and terminates the transport; no
\* frame is made of it.
C27_HandlerExceptionTerminatesTransport ==
    \A i \in StdioTasks :
        HandlerRaisedException(i) =>
            (stdio.tasks[i].pc = "failed" /\ stdio.state = "terminated")

\* A step in which a POST is taken up by _handle_request, and one in which a
\* POST is turned away with MCPRuntimeError.
PostServed == tpc = "idle" /\ tpc' # "idle"
PostRejected == lifecycle'.rejected = lifecycle.rejected + 1
\* A step that leaves `async with transport:`.
Closes == lifecycle'.cycles = lifecycle.cycles + 1

\* C28: StreamableHTTPTransport serves POSTs only between start and close. A
\* POST is taken up only while the transport is open; a POST dispatched
\* before the start or after the close raises MCPRuntimeError and starts
\* nothing; closing returns the transport to the not-started state; and a
\* transport started again, after any number of start/close cycles, takes up
\* a POST as it does the first time.
C28_ServesOnlyBetweenStartAndClose ==
    [][/\ PostServed => lifecycle.open
       /\ PostRejected => (~lifecycle.open /\ UNCHANGED <<callvars, rvars>>)
       /\ Closes => lifecycle'.tg = NotStarted.tg
       /\ (lifecycle.open /\ tpc = "idle")
             => ENABLED (\E h \in PostHeaders, m \in PostBodies :
                            StreamablePost(1, h, m, "scopeA"))]_vars
\* The transport was started, closed and started again, served a POST with
\* 200, was closed, and then turned a POST away.
C28_Witness ==
    /\ lifecycle.cycles = 2 /\ ~lifecycle.open
    /\ lifecycle.rejected = 1
    /\ tpc = "closed" /\ response.status = "200"

\* A step in which handle() dispatched a message to the core.
MessageDispatched == core'.dispatched = core.dispatched + 1
\* The definition of a tool as it is registered now, if it is.
RegisteredTool(d, name) ==
    IF \E i \in DOMAIN d : d[i].name = name
        THEN (CHOOSE e \in {d[i] : i \in DOMAIN d} : e.name = name).tool
        ELSE ToolDef(FALSE, FALSE, {})

\* C29 (as claimed): handling a message changes no server state outside the
\* message's own context and responder: the registries and the core's tool
\* cache are the same after as before, so that a tools/call is answered from
\* the tool's registered definition whatever messages were handled earlier.
C29_DispatchLeavesServerState ==
    [][MessageDispatched =>
          /\ UNCHANGED <<tools, prompts, resources>>
          /\ core'.tool_cache = core.tool_cache
          /\ core'.name # NoName => toolcall'.tool = RegisteredTool(tools, core'.name)]_vars

\* _handle_request is over, and how.
RequestOver == latch.request \in {"finished", "cancelled"}

\* C30 (as claimed): for each POST, task_status.started is invoked exactly
\* once, in every interleaving: a request that is over has made one call.
C30_StartedExactlyOnce == RequestOver => latch.calls = 1

\* C30 (amended): task_status.started is never invoked twice for a POST, in
\* any interleaving of its send calls; a first send invokes it with the
\* stream response, and a request whose handle() call ends without a send
\* having done so invokes it with the plain result, so that a request that
\* finishes has invoked it exactly once. A request cancelled before any send
\* has passed the latch never invokes it.
C30_StartedAtMostOnceAndOnceWhenFinished ==
    /\ latch.calls <= 1
    /\ latch.flag <=> (latch.calls = 1 /\ latch.first = "stream")
    /\ latch.request = "finished" => latch.calls = 1
    /\ (latch.request = "finished" /\ ~latch.flag) => latch.first = "result"
    /\ latch.request = "cancelled" => (latch.calls = 1 <=> latch.flag)
\* Two sends raced for the first initialisation: the one that came second
\* found the flag set under the lock, and the finished request has made one
\* call, with the stream.
C30_Witness ==
    /\ latch.request = "finished"
    /\ latch.contended
    /\ latch.calls = 1 /\ latch.first = "stream"

\* A step in which handle() dispatched a tools/call message.
ToolCallDispatched == MessageDispatched /\ core'.name # NoName

\* C31 (as claimed): after any sequence of tool add, remove, tools/list and
\* tools/call operations, a tools/call for a name is answered with the
\* result that validating the handler's output against the outputSchema of
\* the tool registered under that name at the time of the call gives; in
\* particular after a remove and an add of another tool under the name.
C31_CallValidatesAgainstRegisteredSchema ==
    [][ToolCallDispatched =>
          toolcall'.result =
              call_tool_output(RegisteredTool(tools, core'.name), toolcall'.results)]_vars

\* The entries of the registry that match a URI, as positions in
\* registration order.
StaticMatches(uri) == {i \in DOMAIN resources : ~resources[i].template /\ resources[i].uri = uri}
TemplateMatches(uri) ==
    {i \in DOMAIN resources :
        /\ resources[i].template
        /\ Len(resources[i].uri) = Len(uri)
        /\ \A k \in DOMAIN uri :
              resources[i].uri[k] \in Placeholders \/ resources[i].uri[k] = uri[k]}
\* The values a template's placeholders take on a URI.
Captured(i, uri) ==
    {<<ParamName(resources[i].uri[k]), uri[k]>> :
        k \in {j \in DOMAIN uri : resources[i].uri[j] \in Placeholders}}

\* C32: resources/read resolves a URI to the static resource whose URI
\* equals it when there is one, whatever templates match and wherever they
\* stand in registration order; otherwise to the first template in
\* registration order that matches, with the values its placeholders
\* captured as arguments; otherwise to nothing.
C32_StaticFirstThenTemplatesInOrder ==
    [][JustCalled("resource", "read") =>
          LET uri == regop'.uri
              st == StaticMatches(uri)
              tm == TemplateMatches(uri)
          IN /\ st # {} => /\ regop'.ok /\ regop'.params = {}
                           /\ \E i \in st : regop'.name = resources[i].name
             /\ (st = {} /\ tm # {}) =>
                   \E i \in tm : /\ \A j \in tm : i <= j
                                 /\ regop'.ok /\ regop'.name = resources[i].name
                                 /\ regop'.params = Captured(i, uri)
             /\ (st = {} /\ tm = {}) => ~regop'.ok]_vars
\* A template was registered before a static resource, both match the URI
\* read, and the static resource was found.
C32_Witness ==
    /\ regop.mgr = "resource" /\ regop.op = "read" /\ regop.ok
    /\ regop.uri = <<"users", "42">>
    /\ Len(resources) = 2
    /\ resources[1].template /\ resources[1].uri = <<"users", "{id}">>
    /\ ~resources[2].template /\ resources[2].uri = <<"users", "42">>
    /\ regop.name = resources[2].name
\* Two templates match the URI read and the one registered first was found.
C32_WitnessFirstTemplate ==
    /\ regop.mgr = "resource" /\ regop.op = "read" /\ regop.ok
    /\ regop.uri = <<"users", "42">>
    /\ Len(resources) = 2
    /\ resources[1].uri = <<"{uid}", "42">> /\ resources[2].uri = <<"users", "{id}">>
    /\ regop.name = resources[1].name /\ regop.params = {<<"uid", "users">>}

\* No handle() call is in flight: every task is before or after its call.
NoCallInFlight == \A t \in Tasks : pc[t] \in {"idle", "done"}
FreeSlots == MaxConcurrency - Cardinality(borrowers)

\* C33: a concurrency slot acquired by handle() is released on every exit
\* path (result, error frame, handler exception, idle timeout, external
\* cancellation): a call that is over holds no slot, and whenever no call is
\* in flight the number of free slots equals max_concurrency.
C33_SlotReleasedOnEveryExit ==
    /\ \A t \in Tasks : pc[t] = "done" => t \notin borrowers
    /\ NoCallInFlight => FreeSlots = MaxConcurrency
\* Two calls held the limiter's two slots; one was cancelled by its idle
\* deadline and the other from outside while their handlers were suspended,
\* nothing is in flight, and both slots are free.
C33_Witness ==
    /\ NoCallInFlight
    /\ \E t, u \in Tasks : /\ hist[t].ev = "timeout" /\ hist[t].at = "running"
                           /\ hist[u].ev = "cancelled" /\ hist[u].at = "running"
    /\ FreeSlots = MaxConcurrency

\* The call of task t is admitted by the capacity limiter in this step and
\* its handler starts; the call is blocked waiting for admission.
Admitted(t) == pc[t] = "acquiring" /\ pc'[t] = "running"
WaitingForSlot(t) == pc[t] = "acquiring"

\* C34: the idle deadline of a message starts only after its concurrency
\* slot has been acquired: at admission the deadline is a full idle_timeout
\* away however long the call waited, a waiting call has no deadline, and a
\* call is never timed out while it waits for admission.
C34_DeadlineStartsAtAdmission ==
    /\ \A t \in Tasks : WaitingForSlot(t) => deadline[t] = 0
    /\ [][\A t \in Tasks :
             /\ Admitted(t) => deadline'[t] = now + IdleTimeout
             /\ WaitingForSlot(t) => hist'[t].ev # "timeout"]_vars
\* A call waited for a slot for a whole idle_timeout, was then admitted, and
\* its handler runs with a deadline that is still ahead.
C34_Witness ==
    \E t \in Tasks :
        /\ pc[t] = "running"
        /\ progressAt[t] >= calledAt[t] + IdleTimeout
        /\ deadline[t] = progressAt[t] + IdleTimeout
        /\ now < deadline[t]

\* Writes on a stream whose consumer has gone away: send is called after the
\* consumer left; the consumer leaves while a send (of a notification or of
\* the final result) is blocked; the final result is due on such a stream.
SendOnClosedStream(t) == ~recvOpen /\ started_with_stream' /\ Len(sent'[t]) > Len(sent[t])
BlockedSendBroken == sending # NoItem /\ recvOpen /\ ~recvOpen'
FinalResultOnClosedStream(t) ==
    /\ tpc = "handling" /\ tpc' # "handling" /\ pc[t] = "done"
    /\ started_with_stream /\ ~recvOpen /\ ~HandleCancelled(t)

\* C35: once the SSE response has started, a message passed to send, or the
\* final result, that is written to a stream that is closed or whose
\* consumer has gone away is dropped: nothing is delivered, no exception
\* reaches the handler, which goes on running, and the request ends
\* normally.
C35_ClosedStreamWritesAreDropped ==
    [][\A t \in Tasks :
          /\ SendOnClosedStream(t) =>
                /\ pc'[t] = "running" /\ hist'[t] = hist[t] /\ out'[t] = out[t]
                /\ received' = received /\ sending' = NoItem
          /\ (BlockedSendBroken /\ pc[t] = "sending") =>
                /\ pc'[t] = "running" /\ hist'[t] = hist[t] /\ out'[t] = out[t]
                /\ received' = received
          /\ (BlockedSendBroken /\ tpc = "final") =>
                /\ tpc' = "closed" /\ received' = received /\ out'[t] = out[t]
          /\ FinalResultOnClosedStream(t) =>
                /\ tpc' = "closed" /\ received' = received /\ sending' = NoItem
                /\ response' = SSEResponse]_vars
\* The consumer went away while the first send was blocked; the handler made
\* a second send, returned, and the request ended with nothing delivered.
C35_Witness ==
    /\ started_with_stream /\ ~recvOpen /\ StreamEnded
    /\ Len(sent[1]) = MaxStreamSends
    /\ hist[1].ev = "returned" /\ out[1].kind = "frame"
    /\ received = <<>>

\* _handle_request has left `async with send_stream`: the sending side is
\* closed and a consumer that reads gets end-of-stream.
SendStreamClosed == tpc \in {"closed", "cancelled"}

\* C36: once a streamable-HTTP response has been promoted to SSE, the
\* sending side of its stream is closed when the handler finishes, on every
\* path (result, NoMessage, error): handle() being over leads to the closed
\* stream, which stays closed and delivers nothing after its end.
C36_StreamClosesAfterHandler ==
    /\ (started_with_stream /\ Done(1)) ~> SendStreamClosed
    /\ [][SendStreamClosed => (SendStreamClosed' /\ received' = received)]_vars
\* A notification's handler sent on the stream and ended without a message:
\* the consumer, still reading, received what was sent and the stream ended.
C36_Witness ==
    /\ started_with_stream /\ recvOpen /\ SendStreamClosed
    /\ out[1].kind = "nomessage"
    /\ received = SentItems(1) /\ received # <<>>

\* Steps of __aexit__: it is called while a request is in flight, it returns.
CloseBegins == lifecycle.open /\ ~lifecycle'.open /\ tpc \in {"handling", "final"}
CloseReturns == lifecycle.tg /\ ~lifecycle'.tg

\* C37: closing a StreamableHTTPTransport terminates. It closes every open
\* request stream before it waits for the background request tasks, so a
\* handler blocked in send on a stream that nobody reads is released (and
\* runs on); the close returns only when the request task is over, and it
\* does return.
C37_CloseTerminates ==
    /\ Closing ~> ~lifecycle.tg
    /\ [][/\ CloseBegins =>
                /\ ~recvOpen' /\ sending' = NoItem
                /\ \A t \in Tasks : pc[t] = "sending" => (pc'[t] = "running" /\ hist'[t] = hist[t])
                /\ tpc = "final" => tpc' = "closed"
          /\ CloseReturns => tpc \notin {"handling", "final"}]_vars
\* The handler was blocked in its first send, which nobody read, when the
\* transport was closed; it was released, returned, and the close returned.
C37_Witness ==
    /\ ~lifecycle.tg /\ lifecycle.cycles = 1
    /\ started_with_stream /\ received = <<>> /\ ~recvOpen
    /\ Len(sent[1]) = 1
    /\ hist[1].ev = "returned" /\ tpc = "closed"

\* A step in which transport() read a line; a line of white space only.
LineRead == stdio'.read.n = stdio.read.n + 1
Blank(line) == \A k \in 1..Len(line) : line[k] \in {SP, LF, CR}
TaskOver(i) == stdio.tasks[i].pc \in {"skipped", "done", "failed", "cancelled"}

\* C38: the stdio transport handles every non-empty input line in its own
\* task, exactly once. Reading a line that is not blank starts the task of
\* that line and touches no other task; a blank or whitespace-only line
\* starts nothing; a task is started only by the reading of its line and
\* never again; and a handler that is still running delays neither the
\* reading and dispatch of the next line nor the completion and response of
\* another line's handler.
C38_EachLineInItsOwnTaskOnce ==
    [][/\ LineRead =>
             LET i == stdio'.read.n
             IN /\ stdio.tasks[i].pc = "none"
                /\ stdio'.tasks[i].pc = IF Blank(stdio'.read.line) THEN "skipped" ELSE "handler"
                /\ \A j \in StdioTasks \ {i} : stdio'.tasks[j] = stdio.tasks[j]
                /\ stdout' = stdout
       /\ \A i \in StdioTasks :
             /\ (stdio'.tasks[i].pc = "handler" /\ stdio.tasks[i].pc # "handler")
                   => (LineRead /\ i = stdio'.read.n)
             /\ TaskOver(i) => stdio'.tasks[i] = stdio.tasks[i]
       /\ (stdio.state = "running" /\ stdio.read.n < NumLines)
             => ENABLED (\E line \in InputLines : StdioReadLine(stdio.read.n + 1, line))
       /\ \A j \in StdioTasks :
             (/\ stdio.tasks[j].pc = "handler"
              /\ stdio.state \in {"running", "eof"} /\ stdio.last.n < MaxWrites)
                => ENABLED StdioHandlerEnds(j, StdioOutcome("returned", StdioMessage(<<"x">>)))]_vars
\* The handler of the first line is still running; the second line was read,
\* handled, and its response written.
C38_Witness ==
    /\ stdio.tasks[1].pc = "handler"
    /\ stdio.tasks[2].pc = "done" /\ stdio.tasks[2].outcome.kind = "returned"
    /\ stdio.read = ReadCall(2, <<SP, "x", LF>>)
    /\ Len(stdout) = 1
\* A line of white space was read and no task was started for it.
C38_WitnessBlank ==
    /\ stdio.read = ReadCall(2, <<SP, LF>>)
    /\ stdio.tasks[2].pc = "skipped" /\ stdio.tasks[1].pc = "handler"

\* A step in which the handler of task t called report_progress; the message
\* of t is a request whose params._meta carries a progressToken.
ReportProgressCalled(t) == reported'[t].calls = reported[t].calls + 1
CarriesProgressToken(t) ==
    /\ msg[t].id # AbsentId /\ msg[t].method # "absent"
    /\ msg[t].part = "params+progressToken"

\* C39: when the originating message carries no progress token (it is
\* absent from params._meta, or the message is a notification),
\* report_progress is a no-op: it never calls send, leaves the idle deadline
\* unchanged and returns None; the handler goes on as before.
C39_ReportProgressWithoutTokenIsNoOp ==
    [][\A t \in Tasks :
          (ReportProgressCalled(t) /\ ~CarriesProgressToken(t)) =>
              /\ reported'[t].returned = "None"
              /\ sent' = sent /\ sending' = sending
              /\ deadline' = deadline /\ progressAt' = progressAt
              /\ pc' = pc /\ out' = out]_vars
\* The handler of a notification whose params._meta carries a progressToken
\* called report_progress twice after time had passed: nothing was sent and
\* its deadline is the one set at admission.
C39_Witness ==
    /\ pc[1] = "running"
    /\ msg[1].id = AbsentId /\ msg[1].part = "params+progressToken"
    /\ reported[1] = Report(MaxReports, "None")
    /\ sent[1] = <<>>
    /\ now = MaxTime /\ deadline[1] = calledAt[1] + IdleTimeout /\ calledAt[1] = 0

\* The handler of task t asked a server other than the one handling its
\* message for its context.
AskedOtherServer(t) == asked[t] \in Servers \ {ThisServer}

\* C40 (as claimed): the ambient context is private to each server: with two
\* MiniMCP instances A and B, B.context.get() called while only a message of
\* A is active in the task raises ContextError and never returns A's context.
C40_ContextPrivateToServer ==
    \A t \in Tasks : AskedOtherServer(t) => ~seen[t].active

====
